---- MODULE Spec2Model ----
(***************************************************************************)
(* Model of traefik-tailscale-provider: the tag parser and peer filter of  *)
(* src/config/mod.rs and src/traefik/provider.rs, the synthesis pipeline   *)
(* TraefikProvider::generate_config, and the cache / refresh loop /        *)
(* on-demand handler of src/main.rs.                                       *)
(*                                                                         *)
(* Strings are sequences of one-character strings, so that split, prefix   *)
(* stripping, lower-casing, integer parsing and formatting are computed    *)
(* as the code computes them.  Option<T> is a sequence of length 0 (None)  *)
(* or 1 (Some).  A HashMap is a function whose DOMAIN is its key set.      *)
(***************************************************************************)
EXTENDS Integers, Sequences, FiniteSets, TLC

VARIABLES
    config,     \* ProviderConfig of the running process
    now,        \* Utc::now() as whole seconds since the epoch
    tag,        \* argument of parse_service_info_from_tag
    parsed,     \* <<>> before the call, <<result>> after it
    peer,       \* argument of should_include_peer
    verdict,    \* <<>> before the call, <<bool>> after it
    status,     \* the daemon's status document (synthesis runs)
    gen,        \* per task: the generate_config call in progress
    cache,      \* AppState.cached_config: Option<DynamicConfig>
    lock,       \* the RwLock around the cache: writer and readers
    mainPc,     \* position of main
    refreshPc,  \* position of the background refresh task
    reqPc,      \* per /config request: position of get_dynamic_config
    response,   \* per /config request: the response sent
    listening,  \* TRUE once the TcpListener is bound
    platform,   \* the build target: "unix", "windows" or "other"
    socket_path, \* argument of TailscaleClient::from_socket_path
    client,     \* <<>> before construction, <<Result<TailscaleClient, _>>> after
    request,    \* <<>> or <<the hyper::Request last built by build_request>>
    reply,      \* <<>> or <<what client.request(...).await gave>>
    fetched,    \* <<>> or <<the Result<Status, TailscaleError> of the last fetch>>
    env,        \* the environment ProviderConfig::from_env reads
    fetchOrder  \* history: the holders of a status snapshot, oldest fetch first

vars == <<config, now, tag, parsed, peer, verdict, status, gen, cache, lock,
          mainPc, refreshPc, reqPc, response, listening,
          platform, socket_path, client, request, reply, fetched, env, fetchOrder>>

-----------------------------------------------------------------------------
(* Option<T> *)
None == <<>>
Some(x) == <<x>>
IsSome(o) == o # <<>>
Unwrap(o) == o[1]
UnwrapOr(o, d) == IF o = <<>> THEN d ELSE o[1]

-----------------------------------------------------------------------------
(* Strings *)
UpperChars == <<"A","B","C","D","E","F","G","H","I","J","K","L","M",
                "N","O","P","Q","R","S","T","U","V","W","X","Y","Z">>
LowerChars == <<"a","b","c","d","e","f","g","h","i","j","k","l","m",
                "n","o","p","q","r","s","t","u","v","w","x","y","z">>
Digits == <<"0","1","2","3","4","5","6","7","8","9">>

ToLowerChar(c) ==
    IF \E i \in 1..Len(UpperChars) : UpperChars[i] = c
    THEN LowerChars[CHOOSE i \in 1..Len(UpperChars) : UpperChars[i] = c]
    ELSE c

\* str::to_lowercase
ToLowercase(s) == [i \in 1..Len(s) |-> ToLowerChar(s[i])]

\* str::starts_with
StartsWith(s, p) == Len(s) >= Len(p) /\ SubSeq(s, 1, Len(p)) = p

\* str::strip_prefix(p).unwrap_or(s)
StripPrefix(s, p) == IF StartsWith(s, p) THEN SubSeq(s, Len(p) + 1, Len(s)) ELSE s

\* str::contains
Contains(s, p) == \E i \in 0..(Len(s) - Len(p)) : SubSeq(s, i + 1, i + Len(p)) = p

\* str::split(sep).collect::<Vec<_>>() for a one-character separator
RECURSIVE Split(_, _)
Split(s, sep) ==
    IF \A i \in 1..Len(s) : s[i] # sep
    THEN <<s>>
    ELSE LET i == CHOOSE j \in 1..Len(s) :
                     s[j] = sep /\ \A k \in 1..(j - 1) : s[k] # sep
         IN  <<SubSeq(s, 1, i - 1)>> \o Split(SubSeq(s, i + 1, Len(s)), sep)

\* [&str]::join(sep)
RECURSIVE Join(_, _)
Join(parts, sep) ==
    IF parts = <<>> THEN <<>>
    ELSE IF Len(parts) = 1 THEN parts[1]
    ELSE parts[1] \o sep \o Join(Tail(parts), sep)

IsDigit(c) == \E i \in 1..Len(Digits) : Digits[i] = c
DigitVal(c) == (CHOOSE i \in 1..Len(Digits) : Digits[i] = c) - 1

RECURSIVE DigitsValue(_)
DigitsValue(s) ==
    IF s = <<>> THEN 0
    ELSE DigitsValue(SubSeq(s, 1, Len(s) - 1)) * 10 + DigitVal(s[Len(s)])

U16Max == 65535

\* str::parse::<u16>(): an optional "+", then one or more decimal digits,
\* value at most u16::MAX; anything else is Err
ParseU16(s) ==
    LET body == IF s # <<>> /\ s[1] = "+" THEN Tail(s) ELSE s
    IN  IF body = <<>> \/ \E i \in 1..Len(body) : ~IsDigit(body[i])
        THEN None
        ELSE IF DigitsValue(body) > U16Max THEN None
        ELSE Some(DigitsValue(body))

\* Display for an unsigned integer, as format!("{}", port) prints it
RECURSIVE IntToStr(_)
IntToStr(n) ==
    IF n < 10 THEN <<Digits[n + 1]>>
    ELSE IntToStr(n \div 10) \o <<Digits[(n % 10) + 1]>>

-----------------------------------------------------------------------------
(* String literals of the source *)
\* the grave accent character of the rule strings (the one character the
\* lexer does not accept inside a string, hence spelled out)
BackTick == "grave"
TagPrefix == <<"t","a","g",":">>
DefaultName == <<"d","e","f","a","u","l","t">>
StrHttp == <<"h","t","t","p">>
StrHttps == <<"h","t","t","p","s">>
StrTcp == <<"t","c","p">>
StrUdp == <<"u","d","p">>
StrHealth == <<"/","h","e","a","l","t","h">>

-----------------------------------------------------------------------------
(* src/config/mod.rs *)

\* Protocol::from_str with the bug "the match is case-sensitive" (no
\* to_lowercase)
ProtocolFromStrCaseSensitive(s) ==
    IF s = StrTcp THEN "Tcp"
    ELSE IF s = StrUdp THEN "Udp"
    ELSE "Http"

\* Protocol::from_str
ProtocolFromStr(s) ==
    LET l == ToLowercase(s)
    IN  IF l = StrTcp THEN "Tcp"
        ELSE IF l = StrUdp THEN "Udp"
        ELSE "Http"

ServiceInfo(name, port, protocol, scheme) ==
    [name |-> name, port |-> port, protocol |-> protocol, scheme |-> scheme]

\* the scheme chosen for a tag with a protocol segment
SchemeOfSegment(protocol, seg) ==
    IF protocol = "Http"
    THEN (IF ToLowercase(seg) = StrHttps THEN StrHttps ELSE StrHttp)
    ELSE IF protocol = "Tcp" THEN StrTcp ELSE StrUdp

\* parse_service_info_from_tag with the bug "with extraction disabled the
\* name is the tag as given, the tag: prefix not removed"
parse_service_info_from_tag_raw_name(cfg, t) ==
    LET clean_tag == StripPrefix(t, TagPrefix)
        parts == Split(clean_tag, "-")
        n == Len(parts)
    IN  IF ~cfg.extract_protocol_from_tag
        THEN Some(ServiceInfo(t, Some(cfg.default_port),
                              cfg.default_protocol, cfg.default_scheme))
        ELSE IF n = 1
        THEN Some(ServiceInfo(parts[1], Some(cfg.default_port),
                              cfg.default_protocol, cfg.default_scheme))
        ELSE IF n = 2
        THEN (IF IsSome(ParseU16(parts[2]))
              THEN Some(ServiceInfo(parts[1], ParseU16(parts[2]),
                                    cfg.default_protocol, cfg.default_scheme))
              ELSE None)
        ELSE IF n = 3
        THEN (IF IsSome(ParseU16(parts[2]))
              THEN Some(ServiceInfo(parts[1], ParseU16(parts[2]),
                                    ProtocolFromStr(parts[3]),
                                    SchemeOfSegment(ProtocolFromStr(parts[3]), parts[3])))
              ELSE None)
        ELSE (IF IsSome(ParseU16(parts[n - 1]))
              THEN Some(ServiceInfo(Join(SubSeq(parts, 1, n - 2), <<"-">>),
                                    ParseU16(parts[n - 1]),
                                    ProtocolFromStr(parts[n]),
                                    SchemeOfSegment(ProtocolFromStr(parts[n]), parts[n])))
              ELSE None)

\* parse_service_info_from_tag with the bug "a 2-segment tag whose port does
\* not parse falls back to the default port instead of being excluded"
parse_service_info_from_tag_lenient(cfg, t) ==
    LET clean_tag == StripPrefix(t, TagPrefix)
        parts == Split(clean_tag, "-")
        n == Len(parts)
    IN  IF ~cfg.extract_protocol_from_tag
        THEN Some(ServiceInfo(clean_tag, Some(cfg.default_port),
                              cfg.default_protocol, cfg.default_scheme))
        ELSE IF n = 1
        THEN Some(ServiceInfo(parts[1], Some(cfg.default_port),
                              cfg.default_protocol, cfg.default_scheme))
        ELSE IF n = 2
        THEN Some(ServiceInfo(parts[1], Some(UnwrapOr(ParseU16(parts[2]), cfg.default_port)),
                              cfg.default_protocol, cfg.default_scheme))
        ELSE IF n = 3
        THEN (IF IsSome(ParseU16(parts[2]))
              THEN Some(ServiceInfo(parts[1], ParseU16(parts[2]),
                                    ProtocolFromStr(parts[3]),
                                    SchemeOfSegment(ProtocolFromStr(parts[3]), parts[3])))
              ELSE None)
        ELSE (IF IsSome(ParseU16(parts[n - 1]))
              THEN Some(ServiceInfo(Join(SubSeq(parts, 1, n - 2), <<"-">>),
                                    ParseU16(parts[n - 1]),
                                    ProtocolFromStr(parts[n]),
                                    SchemeOfSegment(ProtocolFromStr(parts[n]), parts[n])))
              ELSE None)

\* ProviderConfig::parse_service_info_from_tag
parse_service_info_from_tag(cfg, t) ==
    LET clean_tag == StripPrefix(t, TagPrefix)
        parts == Split(clean_tag, "-")
        n == Len(parts)
    IN  IF ~cfg.extract_protocol_from_tag
        THEN Some(ServiceInfo(clean_tag, Some(cfg.default_port),
                              cfg.default_protocol, cfg.default_scheme))
        ELSE IF n = 1
        THEN Some(ServiceInfo(parts[1], Some(cfg.default_port),
                              cfg.default_protocol, cfg.default_scheme))
        ELSE IF n = 2
        THEN (IF IsSome(ParseU16(parts[2]))
              THEN Some(ServiceInfo(parts[1], ParseU16(parts[2]),
                                    cfg.default_protocol, cfg.default_scheme))
              ELSE None)
        ELSE IF n = 3
        THEN (IF IsSome(ParseU16(parts[2]))
              THEN Some(ServiceInfo(parts[1], ParseU16(parts[2]),
                                    ProtocolFromStr(parts[3]),
                                    SchemeOfSegment(ProtocolFromStr(parts[3]), parts[3])))
              ELSE None)
        ELSE (IF IsSome(ParseU16(parts[n - 1]))
              THEN Some(ServiceInfo(Join(SubSeq(parts, 1, n - 2), <<"-">>),
                                    ParseU16(parts[n - 1]),
                                    ProtocolFromStr(parts[n]),
                                    SchemeOfSegment(ProtocolFromStr(parts[n]), parts[n])))
              ELSE None)

\* impl Default for ProviderConfig
DefaultConfig ==
    [ default_port |-> 80,
      exclude_exit_nodes |-> TRUE,
      include_tags |-> None,
      exclude_hostnames |-> None,
      health_check_path |-> Some(StrHealth),
      update_interval_seconds |-> 30,
      max_inactive_seconds |-> None,
      include_os |-> None,
      exclude_expired |-> TRUE,
      extract_protocol_from_tag |-> TRUE,
      tag_service_mapping |-> None,
      default_scheme |-> StrHttp,
      default_protocol |-> "Http",
      service_domain_mapping |-> None ]

-----------------------------------------------------------------------------
(* Vec and HashMap *)

SeqContains(v, x) == \E i \in 1..Len(v) : v[i] = x

EmptyMap == <<>>
MapInsert(m, k, v) == [x \in (DOMAIN m) \cup {k} |-> IF x = k THEN v ELSE m[x]]
MapGet(m, k) == IF k \in DOMAIN m THEN Some(m[k]) ELSE None

-----------------------------------------------------------------------------
(* src/config/mod.rs: the policy read from the environment *)

\* the process environment after dotenvy has loaded .env: a map from the
\* names of the set variables to their values
NoEnv == <<>>

\* std::env::var(name).ok()
EnvVar(e, name) == IF name \in DOMAIN e THEN Some(e[name]) ELSE None

\* std::env::var(name).unwrap_or_default()
EnvVarOrDefault(e, name) == UnwrapOr(EnvVar(e, name), <<>>)

IsWhitespace(c) == c \in {" ", "\t", "\n", "\r"}

\* str::trim
RECURSIVE Trim(_)
Trim(s) ==
    IF s = <<>> THEN s
    ELSE IF IsWhitespace(s[1]) THEN Trim(Tail(s))
    ELSE IF IsWhitespace(s[Len(s)]) THEN Trim(SubSeq(s, 1, Len(s) - 1))
    ELSE s

\* s.split(',').map(|x| x.trim().to_string()).collect()
SplitTrimmed(s) ==
    LET parts == Split(s, ",") IN [i \in 1..Len(parts) |-> Trim(parts[i])]

\* str::parse::<u64>(): as for u16, without a width the values of the
\* environments below can reach
ParseU64(s) ==
    LET body == IF s # <<>> /\ s[1] = "+" THEN Tail(s) ELSE s
    IN  IF body = <<>> \/ \E i \in 1..Len(body) : ~IsDigit(body[i])
        THEN None
        ELSE Some(DigitsValue(body))

\* str::parse::<i64>(): an optional sign, then one or more decimal digits
ParseI64(s) ==
    LET signed == s # <<>> /\ s[1] \in {"+", "-"}
        body == IF signed THEN Tail(s) ELSE s
    IN  IF body = <<>> \/ \E i \in 1..Len(body) : ~IsDigit(body[i])
        THEN None
        ELSE IF signed /\ s[1] = "-" THEN Some(0 - DigitsValue(body))
        ELSE Some(DigitsValue(body))

\* std::env::var(name).map(|s| s.to_lowercase() != "false").unwrap_or(true)
EnvFlag(e, name) ==
    IF name \in DOMAIN e THEN ToLowercase(e[name]) # <<"f","a","l","s","e">> ELSE TRUE

\* the scheme parse_service_mapping gives a protocol
SchemeOfProtocol(protocol) ==
    IF protocol = "Http" THEN StrHttp
    ELSE IF protocol = "Tcp" THEN StrTcp ELSE StrUdp

\* the loop of parse_service_mapping over the entries, from entry i on
RECURSIVE ServiceMappingFrom(_, _, _)
ServiceMappingFrom(entries, i, m) ==
    IF i > Len(entries) THEN m
    ELSE LET parts == Split(Trim(entries[i]), ":")
             port == IF Len(parts) >= 2 THEN ParseU16(Trim(parts[2])) ELSE None
             protocol == IF Len(parts) >= 3 THEN ProtocolFromStr(Trim(parts[3]))
                         ELSE "Http"
         IN  IF Len(parts) >= 2 /\ IsSome(port)
             THEN ServiceMappingFrom(entries, i + 1,
                     MapInsert(m, Trim(parts[1]),
                               ServiceInfo(Trim(parts[1]), port, protocol,
                                           SchemeOfProtocol(protocol))))
             ELSE ServiceMappingFrom(entries, i + 1, m)

\* ProviderConfig::parse_service_mapping
parse_service_mapping(mapping_str) ==
    IF mapping_str = <<>> THEN None
    ELSE LET m == ServiceMappingFrom(Split(mapping_str, ","), 1, EmptyMap)
         IN  IF DOMAIN m = {} THEN None ELSE Some(m)

\* the loop of parse_domain_mapping over the entries, from entry i on
RECURSIVE DomainMappingFrom(_, _, _)
DomainMappingFrom(entries, i, m) ==
    IF i > Len(entries) THEN m
    ELSE LET parts == Split(Trim(entries[i]), ":")
         IN  IF Len(parts) = 2
             THEN DomainMappingFrom(entries, i + 1,
                                    MapInsert(m, Trim(parts[1]), Trim(parts[2])))
             ELSE DomainMappingFrom(entries, i + 1, m)

\* ProviderConfig::parse_domain_mapping
parse_domain_mapping(mapping_str) ==
    IF mapping_str = <<>> THEN None
    ELSE LET m == DomainMappingFrom(Split(mapping_str, ","), 1, EmptyMap)
         IN  IF DOMAIN m = {} THEN None ELSE Some(m)

\* ProviderConfig::from_env
from_env(e) ==
    [ default_port |-> LET v == EnvVar(e, "DEFAULT_PORT")
                       IN  IF IsSome(v) THEN UnwrapOr(ParseU16(Unwrap(v)), 80) ELSE 80,
      exclude_exit_nodes |-> EnvFlag(e, "EXCLUDE_EXIT_NODES"),
      include_tags |-> LET v == EnvVar(e, "INCLUDE_TAGS")
                       IN  IF IsSome(v) THEN Some(SplitTrimmed(Unwrap(v))) ELSE None,
      exclude_hostnames |-> LET v == EnvVar(e, "EXCLUDE_HOSTNAMES")
                            IN  IF IsSome(v) THEN Some(SplitTrimmed(Unwrap(v))) ELSE None,
      health_check_path |-> EnvVar(e, "HEALTH_CHECK_PATH"),
      update_interval_seconds |->
          LET v == EnvVar(e, "UPDATE_INTERVAL_SECONDS")
          IN  IF IsSome(v) THEN UnwrapOr(ParseU64(Unwrap(v)), 30) ELSE 30,
      max_inactive_seconds |->
          LET v == EnvVar(e, "MAX_INACTIVE_SECONDS")
          IN  IF IsSome(v) THEN ParseI64(Unwrap(v)) ELSE None,
      include_os |-> LET v == EnvVar(e, "INCLUDE_OS")
                     IN  IF IsSome(v) THEN Some(SplitTrimmed(Unwrap(v))) ELSE None,
      exclude_expired |-> EnvFlag(e, "EXCLUDE_EXPIRED"),
      extract_protocol_from_tag |-> EnvFlag(e, "EXTRACT_PROTOCOL_FROM_TAG"),
      tag_service_mapping |->
          parse_service_mapping(EnvVarOrDefault(e, "TAG_SERVICE_MAPPING")),
      default_scheme |-> UnwrapOr(EnvVar(e, "DEFAULT_SCHEME"), StrHttp),
      default_protocol |->
          ProtocolFromStr(UnwrapOr(EnvVar(e, "DEFAULT_PROTOCOL"), StrHttp)),
      service_domain_mapping |->
          parse_domain_mapping(EnvVarOrDefault(e, "SERVICE_DOMAIN_MAPPING")) ]

-----------------------------------------------------------------------------
(* src/traefik/provider.rs: the peer filter and the synthesis *)

\* should_include_peer with the bug "a peer without an Online field counts
\* as online" (unwrap_or(true))
should_include_peer_absent_online(cfg, p, t) ==
    /\ UnwrapOr(p.online, TRUE)
    /\ ~(cfg.exclude_exit_nodes /\ p.exit_node)
    /\ IsSome(cfg.include_tags) =>
          /\ IsSome(p.tags)
          /\ \E i \in 1..Len(Unwrap(cfg.include_tags)) :
                \E j \in 1..Len(Unwrap(p.tags)) :
                   Contains(StripPrefix(Unwrap(p.tags)[j], TagPrefix),
                            Unwrap(cfg.include_tags)[i])
    /\ IsSome(cfg.exclude_hostnames) =>
          ~SeqContains(Unwrap(cfg.exclude_hostnames), p.hostname)
    /\ IsSome(cfg.max_inactive_seconds) =>
          /\ p.last_write # 0
          /\ ~(t - p.last_write > Unwrap(cfg.max_inactive_seconds))
    /\ IsSome(cfg.include_os) => SeqContains(Unwrap(cfg.include_os), p.os)
    /\ cfg.exclude_expired => ~UnwrapOr(p.expired, FALSE)

\* should_include_peer with the bug "the exclude_exit_nodes test is inverted"
should_include_peer_inverted_exit(cfg, p, t) ==
    /\ UnwrapOr(p.online, FALSE)
    /\ ~(~cfg.exclude_exit_nodes /\ p.exit_node)
    /\ IsSome(cfg.include_tags) =>
          /\ IsSome(p.tags)
          /\ \E i \in 1..Len(Unwrap(cfg.include_tags)) :
                \E j \in 1..Len(Unwrap(p.tags)) :
                   Contains(StripPrefix(Unwrap(p.tags)[j], TagPrefix),
                            Unwrap(cfg.include_tags)[i])
    /\ IsSome(cfg.exclude_hostnames) =>
          ~SeqContains(Unwrap(cfg.exclude_hostnames), p.hostname)
    /\ IsSome(cfg.max_inactive_seconds) =>
          /\ p.last_write # 0
          /\ ~(t - p.last_write > Unwrap(cfg.max_inactive_seconds))
    /\ IsSome(cfg.include_os) => SeqContains(Unwrap(cfg.include_os), p.os)
    /\ cfg.exclude_expired => ~UnwrapOr(p.expired, FALSE)

\* should_include_peer with the bug "an include tag must equal the cleaned
\* peer tag" (== instead of contains)
should_include_peer_exact_tag(cfg, p, t) ==
    /\ UnwrapOr(p.online, FALSE)
    /\ ~(cfg.exclude_exit_nodes /\ p.exit_node)
    /\ IsSome(cfg.include_tags) =>
          /\ IsSome(p.tags)
          /\ \E i \in 1..Len(Unwrap(cfg.include_tags)) :
                \E j \in 1..Len(Unwrap(p.tags)) :
                   StripPrefix(Unwrap(p.tags)[j], TagPrefix) =
                      Unwrap(cfg.include_tags)[i]
    /\ IsSome(cfg.exclude_hostnames) =>
          ~SeqContains(Unwrap(cfg.exclude_hostnames), p.hostname)
    /\ IsSome(cfg.max_inactive_seconds) =>
          /\ p.last_write # 0
          /\ ~(t - p.last_write > Unwrap(cfg.max_inactive_seconds))
    /\ IsSome(cfg.include_os) => SeqContains(Unwrap(cfg.include_os), p.os)
    /\ cfg.exclude_expired => ~UnwrapOr(p.expired, FALSE)

\* should_include_peer with the bug "a peer inactive for exactly
\* max_inactive_seconds is excluded" (>= instead of >)
should_include_peer_inactive_at_least(cfg, p, t) ==
    /\ UnwrapOr(p.online, FALSE)
    /\ ~(cfg.exclude_exit_nodes /\ p.exit_node)
    /\ IsSome(cfg.include_tags) =>
          /\ IsSome(p.tags)
          /\ \E i \in 1..Len(Unwrap(cfg.include_tags)) :
                \E j \in 1..Len(Unwrap(p.tags)) :
                   Contains(StripPrefix(Unwrap(p.tags)[j], TagPrefix),
                            Unwrap(cfg.include_tags)[i])
    /\ IsSome(cfg.exclude_hostnames) =>
          ~SeqContains(Unwrap(cfg.exclude_hostnames), p.hostname)
    /\ IsSome(cfg.max_inactive_seconds) =>
          /\ p.last_write # 0
          /\ ~(t - p.last_write >= Unwrap(cfg.max_inactive_seconds))
    /\ IsSome(cfg.include_os) => SeqContains(Unwrap(cfg.include_os), p.os)
    /\ cfg.exclude_expired => ~UnwrapOr(p.expired, FALSE)

\* TraefikProvider::should_include_peer
should_include_peer(cfg, p, t) ==
    /\ UnwrapOr(p.online, FALSE)
    /\ ~(cfg.exclude_exit_nodes /\ p.exit_node)
    /\ IsSome(cfg.include_tags) =>
          /\ IsSome(p.tags)
          /\ \E i \in 1..Len(Unwrap(cfg.include_tags)) :
                \E j \in 1..Len(Unwrap(p.tags)) :
                   Contains(StripPrefix(Unwrap(p.tags)[j], TagPrefix),
                            Unwrap(cfg.include_tags)[i])
    /\ IsSome(cfg.exclude_hostnames) =>
          ~SeqContains(Unwrap(cfg.exclude_hostnames), p.hostname)
    /\ IsSome(cfg.max_inactive_seconds) =>
          /\ p.last_write # 0
          /\ ~(t - p.last_write > Unwrap(cfg.max_inactive_seconds))
    /\ IsSome(cfg.include_os) => SeqContains(Unwrap(cfg.include_os), p.os)
    /\ cfg.exclude_expired => ~UnwrapOr(p.expired, FALSE)

\* the first loop of extract_service_infos_from_peer: the tags that parse
\* (and whose name is in include_tags when that is configured), in tag order
RECURSIVE ParsedInfos(_, _)
ParsedInfos(cfg, tags) ==
    IF tags = <<>> THEN <<>>
    ELSE LET r == parse_service_info_from_tag(cfg, Head(tags))
             keep == /\ IsSome(r)
                     /\ IsSome(cfg.include_tags) =>
                           SeqContains(Unwrap(cfg.include_tags), Unwrap(r).name)
         IN  (IF keep THEN <<Unwrap(r)>> ELSE <<>>) \o ParsedInfos(cfg, Tail(tags))

\* MappedInfos with the bug "a tag that has parsed is not looked up in the
\* table" (one descriptor per tag at most)
RECURSIVE MappedInfosUnparsedOnly(_, _)
MappedInfosUnparsedOnly(cfg, tags) ==
    IF tags = <<>> THEN <<>>
    ELSE LET m == MapGet(Unwrap(cfg.tag_service_mapping),
                         StripPrefix(Head(tags), TagPrefix))
             keep == /\ IsSome(m)
                     /\ parse_service_info_from_tag(cfg, Head(tags)) = None
                     /\ IsSome(cfg.include_tags) =>
                           SeqContains(Unwrap(cfg.include_tags), Unwrap(m).name)
         IN  (IF keep THEN <<Unwrap(m)>> ELSE <<>>)
                \o MappedInfosUnparsedOnly(cfg, Tail(tags))

\* the second loop: the tags that are keys of tag_service_mapping
RECURSIVE MappedInfos(_, _)
MappedInfos(cfg, tags) ==
    IF tags = <<>> THEN <<>>
    ELSE LET m == MapGet(Unwrap(cfg.tag_service_mapping),
                         StripPrefix(Head(tags), TagPrefix))
             keep == /\ IsSome(m)
                     /\ IsSome(cfg.include_tags) =>
                           SeqContains(Unwrap(cfg.include_tags), Unwrap(m).name)
         IN  (IF keep THEN <<Unwrap(m)>> ELSE <<>>) \o MappedInfos(cfg, Tail(tags))

\* TraefikProvider::extract_service_infos_from_peer
extract_service_infos_from_peer(cfg, p) ==
    LET first == IF IsSome(p.tags) THEN ParsedInfos(cfg, Unwrap(p.tags))
                 ELSE IF cfg.include_tags = None
                 THEN <<ServiceInfo(DefaultName, Some(cfg.default_port),
                                    cfg.default_protocol, cfg.default_scheme)>>
                 ELSE <<>>
        second == IF IsSome(cfg.tag_service_mapping) /\ IsSome(p.tags)
                  THEN MappedInfos(cfg, Unwrap(p.tags))
                  ELSE <<>>
    IN  first \o second

\* hostname.to_lowercase().replace(['.', '_'], "-")
HostnameSafe(h) ==
    [i \in 1..Len(h) |->
        IF ToLowerChar(h[i]) \in {".", "_"} THEN "-" ELSE ToLowerChar(h[i])]

\* generate_service_name_from_info with the bug "the hostname is lower-cased
\* but its dots and underscores are kept"
generate_service_name_from_info_unsanitized(p, info) ==
    IF info.name = DefaultName
    THEN <<"t","a","i","l","s","c","a","l","e","-">> \o ToLowercase(p.hostname)
    ELSE <<"t","a","i","l","s","c","a","l","e","-">> \o ToLowercase(p.hostname)
            \o <<"-">> \o info.name

\* TraefikProvider::generate_service_name_from_info
generate_service_name_from_info(p, info) ==
    IF info.name = DefaultName
    THEN <<"t","a","i","l","s","c","a","l","e","-">> \o HostnameSafe(p.hostname)
    ELSE <<"t","a","i","l","s","c","a","l","e","-">> \o HostnameSafe(p.hostname)
            \o <<"-">> \o info.name

\* TraefikProvider::generate_router_name_from_info
generate_router_name_from_info(p, info) ==
    generate_service_name_from_info(p, info) \o <<"-","r","o","u","t","e","r">>

\* TraefikProvider::create_http_service_from_peer
create_http_service_from_peer(cfg, p, info) ==
    IF p.tailscale_ips = <<>> THEN None
    ELSE Some([load_balancer |->
           [servers |-> << [url |-> info.scheme \o <<":","/","/">> \o p.tailscale_ips[1]
                                    \o <<":">> \o IntToStr(UnwrapOr(info.port, cfg.default_port)),
                            weight |-> Some(1)] >>,
            health_check |->
               IF IsSome(cfg.health_check_path)
               THEN Some([path |-> Unwrap(cfg.health_check_path),
                          interval |-> Some(<<"3","0","s">>),
                          timeout |-> Some(<<"5","s">>)])
               ELSE None]])

\* TraefikProvider::generate_default_host_rule
generate_default_host_rule == <<"H","o","s","t","R","e","g","e","x","p","(",BackTick,".","*",BackTick,")">>

\* the domain configured for a service name, if any
DomainOf(cfg, info) ==
    IF IsSome(cfg.service_domain_mapping)
    THEN MapGet(Unwrap(cfg.service_domain_mapping), info.name)
    ELSE None

\* TraefikProvider::create_http_router_for_peer
create_http_router_for_peer(cfg, p, info, service_name) ==
    Some([rule |-> IF IsSome(DomainOf(cfg, info))
                   THEN <<"H","o","s","t","(",BackTick>> \o Unwrap(DomainOf(cfg, info)) \o <<BackTick,")">>
                   ELSE generate_default_host_rule,
          service |-> service_name,
          middlewares |-> None, priority |-> None, tls |-> None])

\* create_tcp_service_from_peer with the bug "the backend uses the peer's
\* last mesh IP instead of the first"
create_tcp_service_from_peer_last_ip(cfg, p, info) ==
    IF p.tailscale_ips = <<>> THEN None
    ELSE Some([load_balancer |->
           [servers |-> << [address |-> p.tailscale_ips[Len(p.tailscale_ips)] \o <<":">>
                                        \o IntToStr(UnwrapOr(info.port, cfg.default_port)),
                            weight |-> Some(1)] >>]])

\* TraefikProvider::create_tcp_service_from_peer
create_tcp_service_from_peer(cfg, p, info) ==
    IF p.tailscale_ips = <<>> THEN None
    ELSE Some([load_balancer |->
           [servers |-> << [address |-> p.tailscale_ips[1] \o <<":">>
                                        \o IntToStr(UnwrapOr(info.port, cfg.default_port)),
                            weight |-> Some(1)] >>]])

\* create_tcp_router_for_peer with the bug "the domain table is not
\* consulted: every TCP router gets the wildcard rule"
create_tcp_router_for_peer_no_domain(cfg, p, info, service_name) ==
    Some([rule |-> <<"H","o","s","t","S","N","I","(",BackTick,"*",BackTick,")">>,
          service |-> service_name,
          tls |-> None])

\* TraefikProvider::create_tcp_router_for_peer
create_tcp_router_for_peer(cfg, p, info, service_name) ==
    Some([rule |-> IF IsSome(DomainOf(cfg, info))
                   THEN <<"H","o","s","t","S","N","I","(",BackTick>> \o Unwrap(DomainOf(cfg, info)) \o <<BackTick,")">>
                   ELSE <<"H","o","s","t","S","N","I","(",BackTick,"*",BackTick,")">>,
          service |-> service_name,
          tls |-> None])

\* TraefikProvider::create_udp_service_from_peer
create_udp_service_from_peer(cfg, p, info) ==
    IF p.tailscale_ips = <<>> THEN None
    ELSE Some([load_balancer |->
           [servers |-> << [address |-> p.tailscale_ips[1] \o <<":">>
                                        \o IntToStr(UnwrapOr(info.port, cfg.default_port)),
                            weight |-> Some(1)] >>]])

\* create_udp_router_for_peer with the bug "the router points to the
\* descriptor's name instead of the generated service name"
create_udp_router_for_peer_dangling(cfg, p, info, service_name) ==
    Some([service |-> info.name])

\* TraefikProvider::create_udp_router_for_peer
create_udp_router_for_peer(cfg, p, info, service_name) ==
    Some([service |-> service_name])

\* the six maps generate_config fills
EmptyAcc ==
    [http_services |-> EmptyMap, http_routers |-> EmptyMap,
     tcp_services |-> EmptyMap, tcp_routers |-> EmptyMap,
     udp_services |-> EmptyMap, udp_routers |-> EmptyMap]

\* the body of the inner loop of generate_config for one service_info
InsertInfo(cfg, acc, p, info) ==
    LET service_name == generate_service_name_from_info(p, info)
        router_name == generate_router_name_from_info(p, info)
    IN  IF info.protocol = "Http"
        THEN (IF IsSome(create_http_service_from_peer(cfg, p, info))
              THEN [acc EXCEPT
                      !.http_services = MapInsert(@, service_name,
                          Unwrap(create_http_service_from_peer(cfg, p, info))),
                      !.http_routers = MapInsert(@, router_name,
                          Unwrap(create_http_router_for_peer(cfg, p, info, service_name)))]
              ELSE acc)
        ELSE IF info.protocol = "Tcp"
        THEN (IF IsSome(create_tcp_service_from_peer(cfg, p, info))
              THEN [acc EXCEPT
                      !.tcp_services = MapInsert(@, service_name,
                          Unwrap(create_tcp_service_from_peer(cfg, p, info))),
                      !.tcp_routers = MapInsert(@, router_name,
                          Unwrap(create_tcp_router_for_peer(cfg, p, info, service_name)))]
              ELSE acc)
        ELSE (IF IsSome(create_udp_service_from_peer(cfg, p, info))
              THEN [acc EXCEPT
                      !.udp_services = MapInsert(@, service_name,
                          Unwrap(create_udp_service_from_peer(cfg, p, info))),
                      !.udp_routers = MapInsert(@, router_name,
                          Unwrap(create_udp_router_for_peer(cfg, p, info, service_name)))]
              ELSE acc)

\* the inner loop of generate_config: the service_infos of one peer, in order
RECURSIVE InsertInfos(_, _, _, _)
InsertInfos(cfg, acc, p, infos) ==
    IF infos = <<>> THEN acc
    ELSE InsertInfos(cfg, InsertInfo(cfg, acc, p, Head(infos)), p, Tail(infos))

\* ProcessPeer with the bug "the should_include_peer test is skipped"
ProcessPeerUnfiltered(cfg, acc, peer_opt, t) ==
    IF peer_opt = None THEN acc
    ELSE InsertInfos(cfg, acc, Unwrap(peer_opt),
                     extract_service_infos_from_peer(cfg, Unwrap(peer_opt)))

\* ProcessPeer with the bug "a peer without a mesh IP aborts the run: what
\* the loop has built so far is dropped"
ProcessPeerNoIpAborts(cfg, acc, peer_opt, t) ==
    IF peer_opt = None THEN acc
    ELSE IF ~should_include_peer(cfg, Unwrap(peer_opt), t) THEN acc
    ELSE IF Unwrap(peer_opt).tailscale_ips = <<>> THEN EmptyAcc
    ELSE InsertInfos(cfg, acc, Unwrap(peer_opt),
                     extract_service_infos_from_peer(cfg, Unwrap(peer_opt)))

\* one iteration of the outer loop of generate_config: a null entry and a
\* peer that should_include_peer rejects are skipped
ProcessPeer(cfg, acc, peer_opt, t) ==
    IF peer_opt = None THEN acc
    ELSE IF ~should_include_peer(cfg, Unwrap(peer_opt), t) THEN acc
    ELSE InsertInfos(cfg, acc, Unwrap(peer_opt),
                     extract_service_infos_from_peer(cfg, Unwrap(peer_opt)))

\* the DynamicConfig returned when status.peers is None
NoPeersConfig ==
    [http |-> Some([routers |-> EmptyMap, services |-> EmptyMap, middlewares |-> EmptyMap]),
     tcp |-> Some([routers |-> EmptyMap, services |-> EmptyMap]),
     udp |-> Some([routers |-> EmptyMap, services |-> EmptyMap])]

\* the DynamicConfig built after the loop: a section is None when both of
\* its maps are empty
EmitConfig(acc) ==
    [http |-> IF acc.http_services = EmptyMap /\ acc.http_routers = EmptyMap THEN None
              ELSE Some([routers |-> acc.http_routers, services |-> acc.http_services,
                         middlewares |-> EmptyMap]),
     tcp |-> IF acc.tcp_services = EmptyMap /\ acc.tcp_routers = EmptyMap THEN None
             ELSE Some([routers |-> acc.tcp_routers, services |-> acc.tcp_services]),
     udp |-> IF acc.udp_services = EmptyMap /\ acc.udp_routers = EmptyMap THEN None
             ELSE Some([routers |-> acc.udp_routers, services |-> acc.udp_services])]

(* One generate_config call in progress.  phase: "idle" (not called),      *)
(* "fetching" (get_status awaited), "synth" (in the loop over the peer map;*)
(* pending = the keys not visited yet, visited in any order as a HashMap   *)
(* iterates), "ok" (returned Ok(result)), "err" (returned Err).            *)
GenIdle ==
    [phase |-> "idle", peers |-> EmptyMap, pending |-> {}, acc |-> EmptyAcc,
     result |-> None]

GenFetching == [GenIdle EXCEPT !.phase = "fetching"]

\* get_status failed: generate_config returns the error through `?`
GenErr == [GenIdle EXCEPT !.phase = "err"]

\* get_status returned the document s
GenAfterFetch(s) ==
    IF s.peers = None
    THEN [GenIdle EXCEPT !.phase = "ok", !.result = Some(NoPeersConfig)]
    ELSE IF DOMAIN Unwrap(s.peers) = {}
    THEN [GenIdle EXCEPT !.phase = "ok", !.result = Some(EmitConfig(EmptyAcc))]
    ELSE [GenIdle EXCEPT !.phase = "synth", !.peers = Unwrap(s.peers),
                         !.pending = DOMAIN Unwrap(s.peers)]

\* the loop visits entry k; after the last entry the sections are built
GenAfterPeer(cfg, g, k, t) ==
    LET acc2 == ProcessPeer(cfg, g.acc, g.peers[k], t)
        pend == g.pending \ {k}
    IN  [g EXCEPT !.acc = acc2, !.pending = pend,
                  !.phase = IF pend = {} THEN "ok" ELSE "synth",
                  !.result = IF pend = {} THEN Some(EmitConfig(acc2)) ELSE None]

\* the maps the loop of generate_config can end with, over every order in
\* which the HashMap may yield the entries in `pending`
RECURSIVE AccsAfter(_, _, _, _, _)
AccsAfter(cfg, acc, peers, pending, t) ==
    IF pending = {} THEN {acc}
    ELSE UNION { AccsAfter(cfg, ProcessPeer(cfg, acc, peers[k], t), peers,
                           pending \ {k}, t) : k \in pending }

\* TraefikProvider::generate_config as a whole: the configurations a call
\* can return for the status document s
generate_config(cfg, s, t) ==
    IF s.peers = None THEN {NoPeersConfig}
    ELSE { EmitConfig(a) :
             a \in AccsAfter(cfg, EmptyAcc, Unwrap(s.peers), DOMAIN Unwrap(s.peers), t) }

-----------------------------------------------------------------------------
(* src/tailscale/client.rs *)

\* Result<T, E>
Ok(x) == [ok |-> TRUE, value |-> x]
Err(e) == [ok |-> FALSE, error |-> e]

\* the printable ASCII characters in code order, from 32 (space) to 126
AsciiPrintable ==
    <<" ","!","\"","#","$","%","&","'","(",")","*","+",",","-",".","/",
      "0","1","2","3","4","5","6","7","8","9",":",";","<","=",">","?",
      "@","A","B","C","D","E","F","G","H","I","J","K","L","M","N","O",
      "P","Q","R","S","T","U","V","W","X","Y","Z","[","\\","]","^","_",
      BackTick,"a","b","c","d","e","f","g","h","i","j","k","l","m","n","o",
      "p","q","r","s","t","u","v","w","x","y","z","{","|","}","~">>

\* the byte of a character (str::as_bytes on ASCII text)
AsciiCode(c) == (CHOOSE i \in 1..Len(AsciiPrintable) : AsciiPrintable[i] = c) + 31

Base64Alphabet ==
    <<"A","B","C","D","E","F","G","H","I","J","K","L","M","N","O","P",
      "Q","R","S","T","U","V","W","X","Y","Z","a","b","c","d","e","f",
      "g","h","i","j","k","l","m","n","o","p","q","r","s","t","u","v",
      "w","x","y","z","0","1","2","3","4","5","6","7","8","9","+","/">>

Base64Digit(n) == Base64Alphabet[n + 1]

\* base64::engine::general_purpose::STANDARD.encode
RECURSIVE Base64Encode(_)
Base64Encode(s) ==
    IF s = <<>> THEN <<>>
    ELSE IF Len(s) = 1
    THEN LET n == AsciiCode(s[1]) * 16
         IN  <<Base64Digit(n \div 64), Base64Digit(n % 64), "=", "=">>
    ELSE IF Len(s) = 2
    THEN LET n == (AsciiCode(s[1]) * 256 + AsciiCode(s[2])) * 4
         IN  <<Base64Digit(n \div 4096), Base64Digit((n \div 64) % 64),
               Base64Digit(n % 64), "=">>
    ELSE LET n == AsciiCode(s[1]) * 65536 + AsciiCode(s[2]) * 256 + AsciiCode(s[3])
         IN  <<Base64Digit(n \div 262144), Base64Digit((n \div 4096) % 64),
               Base64Digit((n \div 64) % 64), Base64Digit(n % 64)>>
             \o Base64Encode(SubSeq(s, 4, Len(s)))

HexDigits == <<"0","1","2","3","4","5","6","7","8","9","a","b","c","d","e","f">>

\* hex::encode
RECURSIVE HexEncode(_)
HexEncode(s) ==
    IF s = <<>> THEN <<>>
    ELSE <<HexDigits[(AsciiCode(s[1]) \div 16) + 1], HexDigits[(AsciiCode(s[1]) % 16) + 1]>>
         \o HexEncode(Tail(s))

TcpUrlPrefix == <<"t","c","p",":","/","/">>
HttpUrlPrefix == <<"h","t","t","p",":","/","/">>

\* TailscaleClient::from_socket_path on a build for platform plat
from_socket_path(plat, path) ==
    IF StartsWith(path, TcpUrlPrefix)
    THEN LET parts == Split(StripPrefix(path, TcpUrlPrefix), ":")
         IN  IF Len(parts) >= 3
             THEN Ok([kind |-> "Tcp",
                      base_url |-> HttpUrlPrefix \o parts[1] \o <<":">> \o parts[2],
                      token |-> Some(parts[3])])
             ELSE Ok([kind |-> "Tcp",
                      base_url |-> HttpUrlPrefix \o StripPrefix(path, TcpUrlPrefix),
                      token |-> None])
    ELSE IF plat = "unix" THEN Ok([kind |-> "Unix", socket_path |-> path])
    ELSE IF plat = "windows" THEN Ok([kind |-> "NamedPipe", pipe_path |-> path])
    ELSE Err([kind |-> "SocketConnection", msg |-> <<"P","l","a","t","f","o","r","m"," ","n","o","t"," ","s","u","p","p","o","r","t","e","d">>])

\* build_request with the bug "the credential is the bare token, without the
\* leading colon of the empty user name"
build_request_bare_token(uri, token) ==
    [method |-> "GET", uri |-> uri,
     headers |->
        IF IsSome(token)
        THEN [h \in {"Host", "Authorization"} |->
                 IF h = "Host" THEN <<"l","o","c","a","l","-","t","a","i","l","s","c","a","l","e","d",".","s","o","c","k">>
                 ELSE <<"B","a","s","i","c"," ">> \o Base64Encode(Unwrap(token))]
        ELSE [h \in {"Host"} |-> <<"l","o","c","a","l","-","t","a","i","l","s","c","a","l","e","d",".","s","o","c","k">>]]

\* TailscaleClient::build_request, the request it builds
build_request(uri, token) ==
    [method |-> "GET", uri |-> uri,
     headers |->
        IF IsSome(token)
        THEN [h \in {"Host", "Authorization"} |->
                 IF h = "Host" THEN <<"l","o","c","a","l","-","t","a","i","l","s","c","a","l","e","d",".","s","o","c","k">>
                 ELSE <<"B","a","s","i","c"," ">> \o Base64Encode(<<":">> \o Unwrap(token))]
        ELSE [h \in {"Host"} |-> <<"l","o","c","a","l","-","t","a","i","l","s","c","a","l","e","d",".","s","o","c","k">>]]

\* hyper_named_pipe::NAMED_PIPE_SCHEME
NamedPipeScheme == <<"n","e","t",".","p","i","p","e">>

\* the path get_status_with_peers asks for
StatusPath(include_peers) ==
    IF include_peers THEN <<"/","l","o","c","a","l","a","p","i","/","v","0","/","s","t","a","t","u","s">>
    ELSE <<"/","l","o","c","a","l","a","p","i","/","v","0","/","s","t","a","t","u","s","?","p","e","e","r","s","=","f","a","l","s","e">>

\* get_status_with_peers up to the request: the URI of the client variant
\* and the request built for it (token only for the Tcp variant)
RequestOf(c, include_peers) ==
    IF c.kind = "Unix"
    THEN build_request(<<"u","n","i","x",":","/","/">> \o HexEncode(c.socket_path) \o <<":","0">>
                          \o StatusPath(include_peers), None)
    ELSE IF c.kind = "NamedPipe"
    THEN build_request(NamedPipeScheme \o <<":","/","/">> \o HexEncode(c.pipe_path)
                          \o StatusPath(include_peers), None)
    ELSE build_request(c.base_url \o StatusPath(include_peers), c.token)

\* StatusCode::canonical_reason for the codes the daemon answers with
CanonicalReason(code) ==
    IF code = 200 THEN <<"O","K">>
    ELSE IF code = 204 THEN <<"N","o"," ","C","o","n","t","e","n","t">>
    ELSE IF code = 403 THEN <<"F","o","r","b","i","d","d","e","n">>
    ELSE IF code = 500 THEN <<"I","n","t","e","r","n","a","l"," ","S","e","r","v","e","r"," ","E","r","r","o","r">>
    ELSE <<"U","n","k","n","o","w","n">>

\* serde_json::from_slice::<Status> on a response body: only a body that is
\* the JSON of a status document decodes
DecodeStatus(body) == IF body.kind = "status" THEN Some(body.doc) ELSE None

\* handle_response with the bug "a body that does not decode is taken as a
\* status document without peers"
handle_response_default_on_decode(resp) ==
    IF ~(resp.status \in 200..299)
    THEN Err([kind |-> "ApiError",
              msg |-> <<"H","T","T","P"," ">> \o IntToStr(resp.status) \o <<" ">>
                         \o CanonicalReason(resp.status) \o <<":"," ">>
                         \o CanonicalReason(resp.status)])
    ELSE IF resp.body.kind = "read_error"
    THEN Err([kind |-> "SocketConnection", msg |-> <<"F","a","i","l","e","d"," ","t","o"," ","r","e","a","d"," ","r","e","s","p","o","n","s","e"," ","b","o","d","y">>])
    ELSE IF DecodeStatus(resp.body) = None
    THEN Ok([peers |-> None])
    ELSE Ok(Unwrap(DecodeStatus(resp.body)))

\* TailscaleClient::handle_response
handle_response(resp) ==
    IF ~(resp.status \in 200..299)
    THEN Err([kind |-> "ApiError",
              msg |-> <<"H","T","T","P"," ">> \o IntToStr(resp.status) \o <<" ">>
                         \o CanonicalReason(resp.status) \o <<":"," ">>
                         \o CanonicalReason(resp.status)])
    ELSE IF resp.body.kind = "read_error"
    THEN Err([kind |-> "SocketConnection", msg |-> <<"F","a","i","l","e","d"," ","t","o"," ","r","e","a","d"," ","r","e","s","p","o","n","s","e"," ","b","o","d","y">>])
    ELSE IF DecodeStatus(resp.body) = None
    THEN Err([kind |-> "JsonParse", msg |-> <<"J","S","O","N"," ","p","a","r","s","e"," ","e","r","r","o","r">>])
    ELSE Ok(Unwrap(DecodeStatus(resp.body)))

-----------------------------------------------------------------------------
(* Values of the variables a specification does not use *)
IdleStatus == [peers |-> None]
IdlePeer == [hostname |-> <<>>, tailscale_ips |-> <<>>, tags |-> None,
             online |-> None, exit_node |-> FALSE, expired |-> None,
             last_write |-> 0, os |-> <<>>]
IdleLock == [writer |-> None, readers |-> {}]

TagIdle == tag = <<>> /\ parsed = None
FilterIdle == peer = IdlePeer /\ verdict = None
ClientIdle ==
    /\ platform = "unix" /\ socket_path = <<>>
    /\ client = <<>> /\ request = <<>> /\ reply = <<>> /\ fetched = <<>>
EnvIdle == env = NoEnv
ProcessIdle ==
    /\ cache = None /\ lock = IdleLock /\ mainPc = "off" /\ refreshPc = "off"
    /\ reqPc = <<>> /\ response = <<>> /\ listening = FALSE
    /\ fetchOrder = <<>>

-----------------------------------------------------------------------------
(* SpecTag: parse_service_info_from_tag applied to a tag under a policy *)

TagPool ==
    { <<"w","e","b">>,
      <<"d","b","-","5","4","3","2","-","t","c","p">>,
      <<"d","b","-","n","o","t","a","p","o","r","t">>,
      <<"t","a","g",":","w","e","b","-","3","0","0","0">>,
      <<"t","a","g",":","d","b","-","5","4","3","2","-","T","C","P">>,
      <<"a","p","i","-","4","4","3","-","H","T","T","P","S">>,
      <<"a","p","i","-","4","4","3","-","h","t","t","p">>,
      <<"w","e","b","-","8","0","-","f","t","p">>,
      <<"d","n","s","-","5","3","-","u","d","p">>,
      <<"m","y","-","a","p","p","-","8","0","8","0","-","h","t","t","p">>,
      <<"a","-","b","-","c","-","5","3","-","U","d","p">>,
      <<"a","-","b","-","9","-","h","t","t","p","s">>,
      <<"a","-","b","-","c","-","d">>,
      <<"a","-","1","-","t","c","p","-","x">>,
      <<"x","-","6","5","5","3","5">>,
      <<"x","-","6","5","5","3","6">>,
      <<"x","-","6","5","5","3","6","-","t","c","p">>,
      <<"x","-","7","0","0","0","0","0">>,
      <<"x","-","0">>,
      <<"x","-","0","8","0">>,
      <<"x","-","+","8","0">>,
      <<"x","-","8","o">>,
      <<"x","-">>,
      <<"x","-","-","t","c","p">>,
      <<"x","-","8","0","-">>,
      <<"-">>,
      <<"t","a","g",":">>,
      <<>>,
      <<"d","e","f","a","u","l","t">>,
      <<"W","e","b","_","1">> }

TagPolicies ==
    { [DefaultConfig EXCEPT !.extract_protocol_from_tag = e,
                            !.default_port = dp,
                            !.default_protocol = ps[1],
                            !.default_scheme = ps[2]] :
        e \in BOOLEAN, dp \in {80, 8080},
        ps \in { <<"Http", StrHttp>>, <<"Http", StrHttps>>, <<"Tcp", StrTcp>> } }

InitTag ==
    /\ config \in TagPolicies
    /\ tag \in TagPool
    /\ parsed = None
    /\ now = 0 /\ status = IdleStatus /\ gen = <<>>
    /\ FilterIdle /\ ProcessIdle /\ ClientIdle /\ EnvIdle

\* one call of parse_service_info_from_tag
ParseTag ==
    /\ parsed = None
    /\ parsed' = Some(parse_service_info_from_tag(config, tag))
    /\ UNCHANGED <<fetchOrder, env, platform, socket_path, client, request, reply, fetched,
                   config, now, tag, peer, verdict, status, gen, cache, lock,
                   mainPc, refreshPc, reqPc, response, listening>>

NextTag == ParseTag

SpecTag == InitTag /\ [][NextTag]_vars

-----------------------------------------------------------------------------
(* SpecFilter: should_include_peer, and generate_config on the status      *)
(* document holding that one peer, for every combination of the filter     *)
(* options with the peer's fields                                          *)

StrWeb == <<"w","e","b">>
StrDb == <<"d","b">>
StrApi == <<"a","p","i">>
StrBox1 == <<"b","o","x","1">>
StrBox2 == <<"b","o","x","2">>
StrLinux == <<"l","i","n","u","x">>
StrWindows == <<"w","i","n","d","o","w","s">>
TagWeb3000 == <<"t","a","g",":","w","e","b","-","3","0","0","0">>
TagDbTcp == <<"d","b","-","5","4","3","2","-","t","c","p">>
Ip5 == <<"1","0","0",".","6","4",".","0",".","5">>
Ip6 == <<"1","0","0",".","6","4",".","0",".","6">>
Ip7 == <<"1","0","0",".","6","4",".","0",".","7">>

\* the largest value of Utc::now() explored, in seconds
MaxNow == 4
NowValues == 3..MaxNow

FilterPolicies ==
    { [DefaultConfig EXCEPT !.exclude_exit_nodes = xe,
                            !.include_tags = it,
                            !.exclude_hostnames = xh,
                            !.max_inactive_seconds = mi,
                            !.include_os = os,
                            !.exclude_expired = xx] :
        xe \in BOOLEAN,
        it \in {None, Some(<<StrWeb>>), Some(<<StrDb, StrApi>>)},
        xh \in {None, Some(<<StrBox1>>)},
        mi \in {None, Some(-2), Some(2), Some(9)},
        os \in {None, Some(<<StrLinux>>)},
        xx \in BOOLEAN }

FilterPeers ==
    { [hostname |-> h, tailscale_ips |-> ips, tags |-> tg, online |-> on,
       exit_node |-> ex, expired |-> xp, last_write |-> lw, os |-> o] :
        h \in {StrBox1, StrBox2},
        ips \in {<<>>, <<Ip5>>},
        tg \in {None, Some(<<>>), Some(<<TagWeb3000>>), Some(<<TagDbTcp, StrApi>>)},
        on \in {None, Some(TRUE), Some(FALSE)},
        ex \in BOOLEAN,
        xp \in {None, Some(TRUE), Some(FALSE)},
        lw \in {0, 1, 4},
        o \in {StrLinux, StrWindows} }

Solo == <<"solo">>

InitFilter ==
    /\ config \in FilterPolicies
    /\ peer \in FilterPeers
    /\ now \in NowValues
    /\ verdict = None
    /\ status = [peers |-> Some([k \in {1} |-> Some(peer)])]
    /\ gen = [t \in {Solo} |-> GenIdle]
    /\ TagIdle /\ ProcessIdle /\ ClientIdle /\ EnvIdle

\* one call of should_include_peer
CheckPeer ==
    /\ verdict = None
    /\ verdict' = Some(should_include_peer(config, peer, now))
    /\ UNCHANGED <<fetchOrder, env, platform, socket_path, client, request, reply, fetched,
                   config, now, tag, parsed, peer, status, gen, cache, lock,
                   mainPc, refreshPc, reqPc, response, listening>>

\* generate_config on the document whose only peer is `peer`
SynthSolo ==
    /\ IsSome(verdict)
    /\ gen[Solo].phase = "idle"
    /\ gen' = [gen EXCEPT ![Solo] = GenAfterPeer(config, GenAfterFetch(status), 1, now)]
    /\ UNCHANGED <<fetchOrder, env, platform, socket_path, client, request, reply, fetched,
                   config, now, tag, parsed, peer, verdict, status, cache, lock,
                   mainPc, refreshPc, reqPc, response, listening>>

NextFilter == CheckPeer \/ SynthSolo

SpecFilter == InitFilter /\ [][NextFilter]_vars

-----------------------------------------------------------------------------
(* SpecSynth: two runs of generate_config, one after the other, on the     *)
(* same status document under the same policy and clock.  Each run visits  *)
(* the entries of the peer map in an order of its own.                     *)

\* the number of entries of the peer map
MaxPeers == 2
PeerKeys == 1..MaxPeers

StrExit == <<"e","x","i","t">>
TagDnsUdp == <<"d","n","s","-","5","3","-","u","d","p">>
TagDbNotAPort == <<"d","b","-","n","o","t","a","p","o","r","t">>
StrDomain == <<"a",".","i","o">>

PeerBox1Web ==
    [hostname |-> StrBox1, tailscale_ips |-> <<Ip5>>, tags |-> Some(<<TagWeb3000>>),
     online |-> Some(TRUE), exit_node |-> FALSE, expired |-> None,
     last_write |-> 1, os |-> StrLinux]

\* sanitizes to the same host name as PeerBox1Web, other mesh IP
PeerBox1Upper ==
    [PeerBox1Web EXCEPT !.hostname = <<"B","o","x","1">>,
                        !.tailscale_ips = <<Ip6>>,
                        !.tags = Some(<<<<"w","e","b","-","3","0","0","0">>, StrApi>>)]

PeerExit ==
    [PeerBox1Web EXCEPT !.hostname = StrExit, !.tailscale_ips = <<Ip7>>,
                        !.tags = None, !.exit_node = TRUE]

PeerOffline ==
    [PeerBox1Web EXCEPT !.hostname = StrBox2, !.tailscale_ips = <<Ip6>>,
                        !.tags = Some(<<TagDbTcp>>), !.online = Some(FALSE)]

PeerDb ==
    [PeerBox1Web EXCEPT !.hostname = <<"b","o","x",".","2">>,
                        !.tailscale_ips = <<Ip6, Ip7>>,
                        !.tags = Some(<<TagDbTcp, TagDnsUdp, TagDbNotAPort>>),
                        !.last_write = 3, !.os = StrWindows]

PeerNoIp ==
    [PeerBox1Web EXCEPT !.hostname = StrBox2, !.tailscale_ips = <<>>, !.tags = None]

PeerNoTags ==
    [PeerBox1Web EXCEPT !.hostname = <<"b","o","x","_","2">>,
                        !.tailscale_ips = <<Ip7>>, !.tags = None,
                        !.online = Some(TRUE), !.expired = Some(FALSE), !.last_write = 0]

PeerExpired ==
    [PeerBox1Web EXCEPT !.tags = Some(<<StrApi>>), !.expired = Some(TRUE),
                        !.tailscale_ips = <<Ip7>>]

PeerPool == {PeerBox1Web, PeerBox1Upper, PeerExit, PeerOffline, PeerDb,
             PeerNoIp, PeerNoTags, PeerExpired}

\* a status document: no peer map at all, or a map from some of the keys to
\* a null entry or a peer
StatusPool ==
    {[peers |-> None]} \cup
    { [peers |-> Some(m)] :
        m \in UNION { [ks -> {None} \cup {Some(p) : p \in PeerPool}] :
                        ks \in SUBSET PeerKeys } }

SynthPolicies ==
    { DefaultConfig,
      [DefaultConfig EXCEPT !.exclude_exit_nodes = FALSE],
      [DefaultConfig EXCEPT !.include_tags = Some(<<StrWeb>>)],
      [DefaultConfig EXCEPT !.tag_service_mapping =
          Some([x \in {StrApi} |-> ServiceInfo(StrApi, Some(8443), "Tcp", StrTcp)])],
      [DefaultConfig EXCEPT !.service_domain_mapping =
          Some([x \in {StrWeb, StrDb} |-> StrDomain])],
      [DefaultConfig EXCEPT !.extract_protocol_from_tag = FALSE,
                            !.health_check_path = None],
      [DefaultConfig EXCEPT !.max_inactive_seconds = Some(2), !.exclude_expired = FALSE],
      [DefaultConfig EXCEPT !.default_protocol = "Udp", !.default_scheme = StrUdp,
                            !.default_port = 8080] }

Run(i) == <<"run", i>>
Runs == {Run(1), Run(2)}

InitSynth ==
    /\ config \in SynthPolicies
    /\ now = MaxNow
    /\ status \in StatusPool
    /\ gen = [r \in Runs |-> GenIdle]
    /\ TagIdle /\ FilterIdle /\ ProcessIdle /\ ClientIdle /\ EnvIdle

\* run r calls generate_config and get_status returns the document; the
\* second run starts when the first has returned
SynthFetch(r) ==
    /\ gen[r].phase = "idle"
    /\ r = Run(2) => gen[Run(1)].phase = "ok"
    /\ gen' = [gen EXCEPT ![r] = GenAfterFetch(status)]
    /\ UNCHANGED <<fetchOrder, env, platform, socket_path, client, request, reply, fetched,
                   config, now, tag, parsed, peer, verdict, status, cache, lock,
                   mainPc, refreshPc, reqPc, response, listening>>

\* the loop of run r visits entry k of the peer map
SynthPeer(r, k) ==
    /\ gen[r].phase = "synth"
    /\ k \in gen[r].pending
    /\ gen' = [gen EXCEPT ![r] = GenAfterPeer(config, gen[r], k, now)]
    /\ UNCHANGED <<fetchOrder, env, platform, socket_path, client, request, reply, fetched,
                   config, now, tag, parsed, peer, verdict, status, cache, lock,
                   mainPc, refreshPc, reqPc, response, listening>>

NextSynth ==
    \/ \E r \in Runs : SynthFetch(r)
    \/ \E r \in Runs : \E k \in PeerKeys : SynthPeer(r, k)

SpecSynth == InitSynth /\ [][NextSynth]_vars

-----------------------------------------------------------------------------
(* Spec: the process of src/main.rs.  main tests the connection, spawns    *)
(* the refresh task, loads the initial configuration, binds the listener   *)
(* and serves; the refresh task runs one cycle per timer tick; every       *)
(* /config request runs get_dynamic_config.  The cache is guarded by a     *)
(* reader-writer lock.  Each await point of the code ends a step.          *)

\* the number of /config requests
MaxRequests == 2

Requests == 1..MaxRequests
MainTask == <<"main">>
RefreshTask == <<"refresh">>
Req(i) == <<"req", i>>
Tasks == {MainTask, RefreshTask} \cup {Req(i) : i \in Requests}

\* the documents the daemon may answer a status request with
StatusOnePeer == [peers |-> Some([k \in {1} |-> Some(PeerBox1Web)])]
StatusTwoPeers == [peers |-> Some([k \in {1, 2} |->
                       IF k = 1 THEN Some(PeerDb) ELSE Some(PeerNoTags)])]
DaemonStatusPool == {StatusOnePeer, StatusTwoPeers}

\* the process has ended: main returned an error
Ended == mainPc \in {"conn_failed", "bind_failed"}

LockFree == lock.writer = None /\ lock.readers = {}

Init ==
    /\ env = NoEnv
    /\ config = from_env(env)
    /\ now = 3
    /\ status = IdleStatus
    /\ gen = [t \in Tasks |-> GenIdle]
    /\ cache = None
    /\ lock = IdleLock
    /\ mainPc = "test_connection"
    /\ refreshPc = "off"
    /\ reqPc = [i \in Requests |-> "idle"]
    /\ response = [i \in Requests |-> None]
    /\ listening = FALSE
    /\ fetchOrder = <<>>
    /\ TagIdle /\ FilterIdle /\ ClientIdle

(* generate_config, called by any task *)

\* get_status of task t returns a document
GenFetchOk(t) ==
    /\ ~Ended
    /\ gen[t].phase = "fetching"
    /\ \E s \in DaemonStatusPool : gen' = [gen EXCEPT ![t] = GenAfterFetch(s)]
    /\ UNCHANGED <<fetchOrder, env, platform, socket_path, client, request, reply, fetched,
                   config, now, tag, parsed, peer, verdict, status, cache, lock,
                   mainPc, refreshPc, reqPc, response, listening>>

\* get_status of task t fails (connection, API or decode error)
GenFetchErr(t) ==
    /\ ~Ended
    /\ gen[t].phase = "fetching"
    /\ gen' = [gen EXCEPT ![t] = GenErr]
    /\ UNCHANGED <<fetchOrder, env, platform, socket_path, client, request, reply, fetched,
                   config, now, tag, parsed, peer, verdict, status, cache, lock,
                   mainPc, refreshPc, reqPc, response, listening>>

\* the loop of task t visits entry k of the peer map
GenPeer(t, k) ==
    /\ ~Ended
    /\ gen[t].phase = "synth"
    /\ k \in gen[t].pending
    /\ gen' = [gen EXCEPT ![t] = GenAfterPeer(config, gen[t], k, now)]
    /\ UNCHANGED <<fetchOrder, env, platform, socket_path, client, request, reply, fetched,
                   config, now, tag, parsed, peer, verdict, status, cache, lock,
                   mainPc, refreshPc, reqPc, response, listening>>

\* the union of two maps, the entries of b winning (HashMap::extend)
MapExtend(a, b) ==
    [x \in (DOMAIN a) \cup (DOMAIN b) |-> IF x \in DOMAIN b THEN b[x] ELSE a[x]]

\* a section extended by another section
SectionExtend(a, b) ==
    IF a = None THEN b
    ELSE IF b = None THEN a
    ELSE Some([x \in DOMAIN Unwrap(a) |-> MapExtend(Unwrap(a)[x], Unwrap(b)[x])])

\* SwapValue with the bug "the new configuration is merged into the cached
\* one instead of replacing it"
SwapValueMerged(g) ==
    IF cache = None THEN g.result
    ELSE Some([http |-> SectionExtend(Unwrap(cache).http, Unwrap(g.result).http),
               tcp |-> SectionExtend(Unwrap(cache).tcp, Unwrap(g.result).tcp),
               udp |-> SectionExtend(Unwrap(cache).udp, Unwrap(g.result).udp)])

\* the value that `*cache = Some(config)` stores: the configuration the
\* task's generate_config call returned
SwapValue(g) == g.result

(* main *)

\* provider.test_connection() succeeds
TestConnectionOk ==
    /\ mainPc = "test_connection"
    /\ mainPc' = "connected"
    /\ UNCHANGED <<fetchOrder, env, platform, socket_path, client, request, reply, fetched,
                   config, now, tag, parsed, peer, verdict, status, gen, cache, lock,
                   refreshPc, reqPc, response, listening>>

\* provider.test_connection() fails: main returns the error
TestConnectionFail ==
    /\ mainPc = "test_connection"
    /\ mainPc' = "conn_failed"
    /\ UNCHANGED <<fetchOrder, env, platform, socket_path, client, request, reply, fetched,
                   config, now, tag, parsed, peer, verdict, status, gen, cache, lock,
                   refreshPc, reqPc, response, listening>>

\* SpawnRefresh with the bug "the refresh task is spawned whatever the
\* connectivity check returned"
SpawnRefreshUnchecked ==
    /\ mainPc \in {"connected", "conn_failed"}
    /\ refreshPc = "off"
    /\ refreshPc' = "tick"
    /\ mainPc' = IF mainPc = "connected" THEN "initial" ELSE mainPc
    /\ cache' = None
    /\ UNCHANGED <<fetchOrder, env, platform, socket_path, client, request, reply, fetched,
                   config, now, tag, parsed, peer, verdict, status, gen, lock,
                   reqPc, response, listening>>

\* the cache is created empty and the refresh task is spawned
SpawnRefresh ==
    /\ mainPc = "connected"
    /\ refreshPc' = "tick"
    /\ mainPc' = "initial"
    /\ cache' = None
    /\ UNCHANGED <<fetchOrder, env, platform, socket_path, client, request, reply, fetched,
                   config, now, tag, parsed, peer, verdict, status, gen, lock,
                   reqPc, response, listening>>

\* main calls generate_config for the initial load
InitialLoadStart ==
    /\ mainPc = "initial"
    /\ gen' = [gen EXCEPT ![MainTask] = GenFetching]
    /\ mainPc' = "load"
    /\ UNCHANGED <<fetchOrder, env, platform, socket_path, client, request, reply, fetched,
                   config, now, tag, parsed, peer, verdict, status, cache, lock,
                   refreshPc, reqPc, response, listening>>

\* Ok(initial_config): cached_config.write().await returns the guard
InitialLoadAcquire ==
    /\ mainPc = "load"
    /\ gen[MainTask].phase = "ok"
    /\ LockFree
    /\ lock' = [lock EXCEPT !.writer = Some(MainTask)]
    /\ mainPc' = "load_locked"
    /\ UNCHANGED <<fetchOrder, env, platform, socket_path, client, request, reply, fetched,
                   config, now, tag, parsed, peer, verdict, status, gen, cache,
                   refreshPc, reqPc, response, listening>>

\* *cache = Some(initial_config); the guard is dropped at the end of the arm
InitialLoadSwap ==
    /\ mainPc = "load_locked"
    /\ cache' = SwapValue(gen[MainTask])
    /\ lock' = [lock EXCEPT !.writer = None]
    /\ gen' = [gen EXCEPT ![MainTask] = GenIdle]
    /\ mainPc' = "bind"
    /\ UNCHANGED <<fetchOrder, env, platform, socket_path, client, request, reply, fetched,
                   config, now, tag, parsed, peer, verdict, status,
                   refreshPc, reqPc, response, listening>>

\* Err(e): warn and go on
InitialLoadFailed ==
    /\ mainPc = "load"
    /\ gen[MainTask].phase = "err"
    /\ gen' = [gen EXCEPT ![MainTask] = GenIdle]
    /\ mainPc' = "bind"
    /\ UNCHANGED <<fetchOrder, env, platform, socket_path, client, request, reply, fetched,
                   config, now, tag, parsed, peer, verdict, status, cache, lock,
                   refreshPc, reqPc, response, listening>>

\* TcpListener::bind succeeds and axum::serve starts
BindOk ==
    /\ mainPc = "bind"
    /\ listening' = TRUE
    /\ mainPc' = "serving"
    /\ UNCHANGED <<fetchOrder, env, platform, socket_path, client, request, reply, fetched,
                   config, now, tag, parsed, peer, verdict, status, gen, cache, lock,
                   refreshPc, reqPc, response>>

\* TcpListener::bind fails: main returns the error and the runtime stops
BindFail ==
    /\ mainPc = "bind"
    /\ mainPc' = "bind_failed"
    /\ UNCHANGED <<fetchOrder, env, platform, socket_path, client, request, reply, fetched,
                   config, now, tag, parsed, peer, verdict, status, gen, cache, lock,
                   refreshPc, reqPc, response, listening>>

(* the background refresh task *)

\* interval.tick() fires and the task calls generate_config
RefreshTick ==
    /\ ~Ended
    /\ refreshPc = "tick"
    /\ gen' = [gen EXCEPT ![RefreshTask] = GenFetching]
    /\ refreshPc' = "gen"
    /\ UNCHANGED <<fetchOrder, env, platform, socket_path, client, request, reply, fetched,
                   config, now, tag, parsed, peer, verdict, status, cache, lock,
                   mainPc, reqPc, response, listening>>

\* Ok(new_config): cached_config_clone.write().await returns the guard
RefreshAcquire ==
    /\ ~Ended
    /\ refreshPc = "gen"
    /\ gen[RefreshTask].phase = "ok"
    /\ LockFree
    /\ lock' = [lock EXCEPT !.writer = Some(RefreshTask)]
    /\ refreshPc' = "locked"
    /\ UNCHANGED <<fetchOrder, env, platform, socket_path, client, request, reply, fetched,
                   config, now, tag, parsed, peer, verdict, status, gen, cache,
                   mainPc, reqPc, response, listening>>

\* *cache = Some(new_config); the guard is dropped and the loop goes back to
\* the timer
RefreshSwap ==
    /\ ~Ended
    /\ refreshPc = "locked"
    /\ cache' = SwapValue(gen[RefreshTask])
    /\ lock' = [lock EXCEPT !.writer = None]
    /\ gen' = [gen EXCEPT ![RefreshTask] = GenIdle]
    /\ refreshPc' = "tick"
    /\ UNCHANGED <<fetchOrder, env, platform, socket_path, client, request, reply, fetched,
                   config, now, tag, parsed, peer, verdict, status,
                   mainPc, reqPc, response, listening>>

\* RefreshFailed with the bug "a failed cycle clears the cache"
RefreshFailedClears ==
    /\ ~Ended
    /\ refreshPc = "gen"
    /\ gen[RefreshTask].phase = "err"
    /\ LockFree
    /\ cache' = None
    /\ gen' = [gen EXCEPT ![RefreshTask] = GenIdle]
    /\ refreshPc' = "tick"
    /\ UNCHANGED <<fetchOrder, env, platform, socket_path, client, request, reply, fetched,
                   config, now, tag, parsed, peer, verdict, status, lock,
                   mainPc, reqPc, response, listening>>

\* RefreshFailed with the bug "a failed cycle ends the refresh task"
RefreshFailedStops ==
    /\ ~Ended
    /\ refreshPc = "gen"
    /\ gen[RefreshTask].phase = "err"
    /\ gen' = [gen EXCEPT ![RefreshTask] = GenIdle]
    /\ refreshPc' = "stopped"
    /\ UNCHANGED <<fetchOrder, env, platform, socket_path, client, request, reply, fetched,
                   config, now, tag, parsed, peer, verdict, status, cache, lock,
                   mainPc, reqPc, response, listening>>

\* Err(e): the error is logged and the loop goes back to the timer
RefreshFailed ==
    /\ ~Ended
    /\ refreshPc = "gen"
    /\ gen[RefreshTask].phase = "err"
    /\ gen' = [gen EXCEPT ![RefreshTask] = GenIdle]
    /\ refreshPc' = "tick"
    /\ UNCHANGED <<fetchOrder, env, platform, socket_path, client, request, reply, fetched,
                   config, now, tag, parsed, peer, verdict, status, cache, lock,
                   mainPc, reqPc, response, listening>>

(* get_dynamic_config, one instance per /config request *)

\* the request arrives and state.cached_config.read().await returns the guard
ReqRead(i) ==
    /\ ~Ended
    /\ listening
    /\ reqPc[i] = "idle"
    /\ lock.writer = None
    /\ lock' = [lock EXCEPT !.readers = @ \cup {Req(i)}]
    /\ reqPc' = [reqPc EXCEPT ![i] = "reading"]
    /\ UNCHANGED <<fetchOrder, env, platform, socket_path, client, request, reply, fetched,
                   config, now, tag, parsed, peer, verdict, status, gen, cache,
                   mainPc, refreshPc, response, listening>>

\* Some(config): 200 with a clone of the cached value; the guard is dropped
\* when the handler returns
ReqHit(i) ==
    /\ ~Ended
    /\ reqPc[i] = "reading"
    /\ cache # None
    /\ response' = [response EXCEPT ![i] = Some([code |-> 200, body |-> cache])]
    /\ lock' = [lock EXCEPT !.readers = @ \ {Req(i)}]
    /\ reqPc' = [reqPc EXCEPT ![i] = "done"]
    /\ UNCHANGED <<fetchOrder, env, platform, socket_path, client, request, reply, fetched,
                   config, now, tag, parsed, peer, verdict, status, gen, cache,
                   mainPc, refreshPc, listening>>

\* ReqMiss with the bug "the read guard is not dropped before generating"
ReqMissKeepsGuard(i) ==
    /\ ~Ended
    /\ reqPc[i] = "reading"
    /\ cache = None
    /\ gen' = [gen EXCEPT ![Req(i)] = GenFetching]
    /\ reqPc' = [reqPc EXCEPT ![i] = "gen"]
    /\ UNCHANGED <<fetchOrder, env, platform, socket_path, client, request, reply, fetched,
                   config, now, tag, parsed, peer, verdict, status, cache, lock,
                   mainPc, refreshPc, response, listening>>

\* ReqMiss with the bug "single flight: a request that finds the cache empty
\* starts no cycle while another request's cycle is in flight"
ReqMissSingleFlight(i) ==
    /\ ~Ended
    /\ reqPc[i] = "reading"
    /\ cache = None
    /\ \A j \in Requests \ {i} : reqPc[j] \notin {"gen", "locked"}
    /\ lock' = [lock EXCEPT !.readers = @ \ {Req(i)}]
    /\ gen' = [gen EXCEPT ![Req(i)] = GenFetching]
    /\ reqPc' = [reqPc EXCEPT ![i] = "gen"]
    /\ UNCHANGED <<fetchOrder, env, platform, socket_path, client, request, reply, fetched,
                   config, now, tag, parsed, peer, verdict, status, cache,
                   mainPc, refreshPc, response, listening>>

\* None: drop(cache), then the handler calls generate_config
ReqMiss(i) ==
    /\ ~Ended
    /\ reqPc[i] = "reading"
    /\ cache = None
    /\ lock' = [lock EXCEPT !.readers = @ \ {Req(i)}]
    /\ gen' = [gen EXCEPT ![Req(i)] = GenFetching]
    /\ reqPc' = [reqPc EXCEPT ![i] = "gen"]
    /\ UNCHANGED <<fetchOrder, env, platform, socket_path, client, request, reply, fetched,
                   config, now, tag, parsed, peer, verdict, status, cache,
                   mainPc, refreshPc, response, listening>>

\* Ok(config): state.cached_config.write().await returns the guard
ReqAcquire(i) ==
    /\ ~Ended
    /\ reqPc[i] = "gen"
    /\ gen[Req(i)].phase = "ok"
    /\ LockFree
    /\ lock' = [lock EXCEPT !.writer = Some(Req(i))]
    /\ reqPc' = [reqPc EXCEPT ![i] = "locked"]
    /\ UNCHANGED <<fetchOrder, env, platform, socket_path, client, request, reply, fetched,
                   config, now, tag, parsed, peer, verdict, status, gen, cache,
                   mainPc, refreshPc, response, listening>>

\* *cache = Some(config.clone()); 200 with the generated value; the guard is
\* dropped when the handler returns
ReqSwap(i) ==
    /\ ~Ended
    /\ reqPc[i] = "locked"
    /\ cache' = SwapValue(gen[Req(i)])
    /\ response' = [response EXCEPT ![i] = Some([code |-> 200, body |-> gen[Req(i)].result])]
    /\ lock' = [lock EXCEPT !.writer = None]
    /\ gen' = [gen EXCEPT ![Req(i)] = GenIdle]
    /\ reqPc' = [reqPc EXCEPT ![i] = "done"]
    /\ UNCHANGED <<fetchOrder, env, platform, socket_path, client, request, reply, fetched,
                   config, now, tag, parsed, peer, verdict, status,
                   mainPc, refreshPc, listening>>

\* Err(_): 503
ReqFailed(i) ==
    /\ ~Ended
    /\ reqPc[i] = "gen"
    /\ gen[Req(i)].phase = "err"
    /\ response' = [response EXCEPT ![i] = Some([code |-> 503, body |-> None])]
    /\ gen' = [gen EXCEPT ![Req(i)] = GenIdle]
    /\ reqPc' = [reqPc EXCEPT ![i] = "done"]
    /\ UNCHANGED <<fetchOrder, env, platform, socket_path, client, request, reply, fetched,
                   config, now, tag, parsed, peer, verdict, status, cache, lock,
                   mainPc, refreshPc, listening>>

Next ==
    \/ TestConnectionOk
    \/ TestConnectionFail
    \/ SpawnRefresh
    \/ InitialLoadStart
    \/ InitialLoadAcquire
    \/ InitialLoadSwap
    \/ InitialLoadFailed
    \/ BindOk
    \/ BindFail
    \/ RefreshTick
    \/ RefreshAcquire
    \/ RefreshSwap
    \/ RefreshFailed
    \/ \E t \in Tasks : GenFetchOk(t)
    \/ \E t \in Tasks : GenFetchErr(t)
    \/ \E t \in Tasks : \E k \in PeerKeys : GenPeer(t, k)
    \/ \E i \in Requests : ReqRead(i)
    \/ \E i \in Requests : ReqHit(i)
    \/ \E i \in Requests : ReqMiss(i)
    \/ \E i \in Requests : ReqAcquire(i)
    \/ \E i \in Requests : ReqSwap(i)
    \/ \E i \in Requests : ReqFailed(i)

Spec == Init /\ [][Next]_vars

-----------------------------------------------------------------------------
(* SpecLive: Spec under the scheduling of the tokio runtime.  A task that  *)
(* can take a step is eventually polled: main goes on after each await,    *)
(* the interval timer of the refresh task fires, a status fetch returns    *)
(* (the transport has its own timeout), the synthesis loop is a finite     *)
(* computation, and a handler that holds a guard of the RwLock runs to the *)
(* point where it drops it.  Weak fairness per task is all that is         *)
(* assumed; the fair queue of the RwLock would justify more.               *)

\* a step of main between two awaits
MainStep ==
    \/ TestConnectionOk \/ TestConnectionFail \/ SpawnRefresh
    \/ InitialLoadStart \/ InitialLoadAcquire \/ InitialLoadSwap \/ InitialLoadFailed
    \/ BindOk \/ BindFail
    \/ GenFetchOk(MainTask) \/ GenFetchErr(MainTask)

\* a step of the refresh task between two awaits
RefreshStep ==
    \/ RefreshTick \/ RefreshAcquire \/ RefreshSwap \/ RefreshFailed
    \/ GenFetchOk(RefreshTask) \/ GenFetchErr(RefreshTask)

\* a step of a handler that has been called (the arrival of a request,
\* ReqRead, is the client's choice)
HandlerStep ==
    \E i \in Requests :
        \/ ReqHit(i) \/ ReqMiss(i) \/ ReqAcquire(i) \/ ReqSwap(i) \/ ReqFailed(i)
        \/ GenFetchOk(Req(i)) \/ GenFetchErr(Req(i))

\* the loop of generate_config over the peer map is a finite computation
\* without an await: while the process lives, a task does not stay in it
SynthTerminates == \A t \in Tasks : []<>(gen[t].phase # "synth" \/ Ended)

Fairness ==
    /\ WF_vars(MainStep)
    /\ WF_vars(RefreshStep)
    /\ WF_vars(HandlerStep)
    /\ SynthTerminates

\* the requests that arrive in SpecLive: one handler is enough to contend
\* with the refresh task for the lock
LiveRequests == {1}

NextLive ==
    \/ MainStep
    \/ RefreshStep
    \/ HandlerStep
    \/ \E t \in Tasks : \E k \in PeerKeys : GenPeer(t, k)
    \/ \E i \in LiveRequests : ReqRead(i)

SpecLive == Init /\ [][NextLive]_vars /\ Fairness

-----------------------------------------------------------------------------
(* SpecOrder: the process of src/main.rs with a history of the order in    *)
(* which the status snapshots were fetched.  fetchOrder lists, oldest      *)
(* fetch first, the tasks that hold a snapshot they have not written yet   *)
(* and the cache once it has been written.  The actions that fetch or      *)
(* write are those of Spec, recording the history as well.                 *)

CacheSlot == <<"cache">>

Without(order, x) ==
    LET Other(y) == y # x
    IN  SelectSeq(order, Other)

\* task t has got the newest snapshot
OrderAfterFetch(order, t) == Append(Without(order, t), t)

\* task t has stored the configuration of its snapshot: the cache takes the
\* place of t
OrderAfterSwap(order, t) ==
    LET o == Without(order, CacheSlot)
    IN  [i \in 1..Len(o) |-> IF o[i] = t THEN CacheSlot ELSE o[i]]

\* get_status of task t returns a document, the newest snapshot so far
GenFetchOkOrdered(t) ==
    /\ ~Ended
    /\ gen[t].phase = "fetching"
    /\ \E s \in DaemonStatusPool : gen' = [gen EXCEPT ![t] = GenAfterFetch(s)]
    /\ fetchOrder' = OrderAfterFetch(fetchOrder, t)
    /\ UNCHANGED <<env, platform, socket_path, client, request, reply, fetched,
                   config, now, tag, parsed, peer, verdict, status, cache, lock,
                   mainPc, refreshPc, reqPc, response, listening>>

\* *cache = Some(initial_config) of the initial load
InitialLoadSwapOrdered ==
    /\ mainPc = "load_locked"
    /\ cache' = SwapValue(gen[MainTask])
    /\ lock' = [lock EXCEPT !.writer = None]
    /\ gen' = [gen EXCEPT ![MainTask] = GenIdle]
    /\ mainPc' = "bind"
    /\ fetchOrder' = OrderAfterSwap(fetchOrder, MainTask)
    /\ UNCHANGED <<env, platform, socket_path, client, request, reply, fetched,
                   config, now, tag, parsed, peer, verdict, status,
                   refreshPc, reqPc, response, listening>>

\* *cache = Some(new_config) of the refresh task
RefreshSwapOrdered ==
    /\ ~Ended
    /\ refreshPc = "locked"
    /\ cache' = SwapValue(gen[RefreshTask])
    /\ lock' = [lock EXCEPT !.writer = None]
    /\ gen' = [gen EXCEPT ![RefreshTask] = GenIdle]
    /\ refreshPc' = "tick"
    /\ fetchOrder' = OrderAfterSwap(fetchOrder, RefreshTask)
    /\ UNCHANGED <<env, platform, socket_path, client, request, reply, fetched,
                   config, now, tag, parsed, peer, verdict, status,
                   mainPc, reqPc, response, listening>>

\* *cache = Some(config.clone()) of the /config handler
ReqSwapOrdered(i) ==
    /\ ~Ended
    /\ reqPc[i] = "locked"
    /\ cache' = SwapValue(gen[Req(i)])
    /\ response' = [response EXCEPT ![i] = Some([code |-> 200, body |-> gen[Req(i)].result])]
    /\ lock' = [lock EXCEPT !.writer = None]
    /\ gen' = [gen EXCEPT ![Req(i)] = GenIdle]
    /\ reqPc' = [reqPc EXCEPT ![i] = "done"]
    /\ fetchOrder' = OrderAfterSwap(fetchOrder, Req(i))
    /\ UNCHANGED <<env, platform, socket_path, client, request, reply, fetched,
                   config, now, tag, parsed, peer, verdict, status,
                   mainPc, refreshPc, listening>>

NextOrder ==
    \/ TestConnectionOk
    \/ TestConnectionFail
    \/ SpawnRefresh
    \/ InitialLoadStart
    \/ InitialLoadAcquire
    \/ InitialLoadSwapOrdered
    \/ InitialLoadFailed
    \/ BindOk
    \/ BindFail
    \/ RefreshTick
    \/ RefreshAcquire
    \/ RefreshSwapOrdered
    \/ RefreshFailed
    \/ \E t \in Tasks : GenFetchOkOrdered(t)
    \/ \E t \in Tasks : GenFetchErr(t)
    \/ \E t \in Tasks : \E k \in PeerKeys : GenPeer(t, k)
    \/ \E i \in Requests : ReqRead(i)
    \/ \E i \in Requests : ReqHit(i)
    \/ \E i \in Requests : ReqMiss(i)
    \/ \E i \in Requests : ReqAcquire(i)
    \/ \E i \in Requests : ReqSwapOrdered(i)
    \/ \E i \in Requests : ReqFailed(i)

SpecOrder == Init /\ [][NextOrder]_vars

-----------------------------------------------------------------------------
(* SpecClient: one TailscaleClient, built by from_socket_path from a       *)
(* descriptor on some build target, serving status requests one after the  *)
(* other: get_status for generate_config (with peers) and                   *)
(* get_status_without_peers for test_connection.                            *)

SocketPathPool ==
    { <<"t","c","p",":","/","/","h",":","1",":","a","b","c">>,
      <<"t","c","p",":","/","/","h",":","1",":">>,
      <<"t","c","p",":","/","/","h",":","1",":","a","b",":","c","d">>,
      <<"t","c","p",":","/","/","1","2","7",".","0",".","0",".","1",":","8","0",":","s","3">>,
      <<"t","c","p",":","/","/","h",":","1">>,
      <<"t","c","p",":","/","/","h">>,
      <<"/","t",".","s","o","c","k">>,
      <<"\\","\\",".","\\","p","i","p","e","\\","t","s">> }

Platforms == {"unix", "windows", "other"}

\* the status codes the daemon answers with
ReplyCodes == {200, 204, 403, 500}

\* the bodies of the daemon's responses: one that cannot be read to its end,
\* the JSON of a status document, text that is not JSON, and JSON without
\* the required fields of Status
ReplyBodies ==
    { [kind |-> "read_error"], [kind |-> "not_json"], [kind |-> "incomplete_json"] }
    \cup { [kind |-> "status", doc |-> s] : s \in {IdleStatus, StatusOnePeer} }

\* what client.request(request).await gives: a transport error or a response
Replies ==
    { [kind |-> "send_error"] }
    \cup { [kind |-> "response", status |-> c, body |-> b] :
             c \in ReplyCodes, b \in ReplyBodies }

Caller == <<"caller">>

\* the request in the state asks for the peers (it is get_status, called by
\* generate_config)
WithPeers == IsSome(request) /\ Unwrap(request).uri[Len(Unwrap(request).uri)] = "s"

InitClient ==
    /\ platform \in Platforms
    /\ socket_path \in SocketPathPool
    /\ client = None /\ request = None /\ reply = None /\ fetched = None
    /\ config = DefaultConfig
    /\ now = MaxNow
    /\ status = IdleStatus
    /\ gen = [t \in {Caller} |-> GenIdle]
    /\ TagIdle /\ FilterIdle /\ ProcessIdle /\ EnvIdle

\* TailscaleClient::with_socket_path
NewClient ==
    /\ client = None
    /\ client' = Some(from_socket_path(platform, socket_path))
    /\ UNCHANGED <<fetchOrder, env, platform, socket_path, request, reply, fetched,
                   config, now, tag, parsed, peer, verdict, status, gen, cache, lock,
                   mainPc, refreshPc, reqPc, response, listening>>

\* a call is possible: the client exists and no call is in progress
ClientReady ==
    /\ IsSome(client) /\ Unwrap(client).ok
    /\ request = None /\ reply = None /\ fetched = None
    /\ gen[Caller] = GenIdle

\* get_status_with_peers builds the request and sends it
BuildRequest(include_peers) ==
    /\ ClientReady
    /\ request' = Some(RequestOf(Unwrap(client).value, include_peers))
    /\ gen' = [gen EXCEPT ![Caller] = IF include_peers THEN GenFetching ELSE @]
    /\ UNCHANGED <<fetchOrder, env, platform, socket_path, client, reply, fetched,
                   config, now, tag, parsed, peer, verdict, status, cache, lock,
                   mainPc, refreshPc, reqPc, response, listening>>

\* the URI does not parse or the builder rejects the request: the call
\* returns Err(SocketConnection) through `?` without sending anything
BuildRequestFails(include_peers) ==
    /\ ClientReady
    /\ Unwrap(client).value.kind # "Unix"
    /\ fetched' = Some(Err([kind |-> "SocketConnection", msg |-> <<"I","n","v","a","l","i","d"," ","U","R","I">>]))
    /\ gen' = [gen EXCEPT ![Caller] = IF include_peers THEN GenErr ELSE @]
    /\ UNCHANGED <<fetchOrder, env, platform, socket_path, client, request, reply,
                   config, now, tag, parsed, peer, verdict, status, cache, lock,
                   mainPc, refreshPc, reqPc, response, listening>>

\* client.request(request).await returns
Transport(r) ==
    /\ IsSome(request) /\ reply = None /\ fetched = None
    /\ reply' = Some(r)
    /\ UNCHANGED <<fetchOrder, env, platform, socket_path, client, request, fetched,
                   config, now, tag, parsed, peer, verdict, status, gen, cache, lock,
                   mainPc, refreshPc, reqPc, response, listening>>

\* the Result of get_status_with_peers for what the transport gave
FetchResult(r) ==
    IF r.kind = "send_error"
    THEN Err([kind |-> "SocketConnection", msg |-> <<"F","a","i","l","e","d"," ","t","o"," ","s","e","n","d"," ","r","e","q","u","e","s","t">>])
    ELSE handle_response(r)

\* the call returns: map_err(..)? on a transport error, handle_response on a
\* response; generate_config goes on with the document or returns the error
Returned ==
    /\ IsSome(reply) /\ fetched = None
    /\ fetched' = Some(FetchResult(Unwrap(reply)))
    /\ gen' = [gen EXCEPT ![Caller] =
                  IF ~WithPeers THEN @
                  ELSE IF FetchResult(Unwrap(reply)).ok
                  THEN GenAfterFetch(FetchResult(Unwrap(reply)).value)
                  ELSE GenErr]
    /\ UNCHANGED <<fetchOrder, env, platform, socket_path, client, request, reply,
                   config, now, tag, parsed, peer, verdict, status, cache, lock,
                   mainPc, refreshPc, reqPc, response, listening>>

\* the loop of generate_config visits entry k of the peer map
ClientPeer(k) ==
    /\ gen[Caller].phase = "synth"
    /\ k \in gen[Caller].pending
    /\ gen' = [gen EXCEPT ![Caller] = GenAfterPeer(config, gen[Caller], k, now)]
    /\ UNCHANGED <<fetchOrder, env, platform, socket_path, client, request, reply, fetched,
                   config, now, tag, parsed, peer, verdict, status, cache, lock,
                   mainPc, refreshPc, reqPc, response, listening>>

\* the caller has its answer; the client is ready for the next call
NextCall ==
    /\ IsSome(fetched)
    /\ gen[Caller].phase \in {"idle", "ok", "err"}
    /\ request' = None /\ reply' = None /\ fetched' = None
    /\ gen' = [gen EXCEPT ![Caller] = GenIdle]
    /\ UNCHANGED <<fetchOrder, env, platform, socket_path, client,
                   config, now, tag, parsed, peer, verdict, status, cache, lock,
                   mainPc, refreshPc, reqPc, response, listening>>

NextClient ==
    \/ NewClient
    \/ \E ip \in BOOLEAN : BuildRequest(ip)
    \/ \E ip \in BOOLEAN : BuildRequestFails(ip)
    \/ \E r \in Replies : Transport(r)
    \/ Returned
    \/ \E k \in PeerKeys : ClientPeer(k)
    \/ NextCall

SpecClient == InitClient /\ [][NextClient]_vars

-----------------------------------------------------------------------------
(* SpecEnv: main reads the policy from the environment with                *)
(* ProviderConfig::from_env (main.rs:69) and generate_config runs under    *)
(* that policy.                                                             *)

\* HEALTH_CHECK_PATH alone is set
EnvHealth == [n \in {"HEALTH_CHECK_PATH"} |-> StrHealth]

\* every scalar option and both tables are set
EnvCustom ==
    [n \in {"DEFAULT_PORT", "EXCLUDE_EXIT_NODES", "HEALTH_CHECK_PATH",
            "UPDATE_INTERVAL_SECONDS", "MAX_INACTIVE_SECONDS", "EXCLUDE_EXPIRED",
            "EXTRACT_PROTOCOL_FROM_TAG", "TAG_SERVICE_MAPPING", "DEFAULT_SCHEME",
            "DEFAULT_PROTOCOL", "SERVICE_DOMAIN_MAPPING"} |->
        CASE n = "DEFAULT_PORT" -> <<"8","0","8","0">>
          [] n = "EXCLUDE_EXIT_NODES" -> <<"F","a","l","s","e">>
          [] n = "HEALTH_CHECK_PATH" -> <<"/","u","p">>
          [] n = "UPDATE_INTERVAL_SECONDS" -> <<"5">>
          [] n = "MAX_INACTIVE_SECONDS" -> <<"-","1">>
          [] n = "EXCLUDE_EXPIRED" -> <<"n","o">>
          [] n = "EXTRACT_PROTOCOL_FROM_TAG" -> <<"F","A","L","S","E">>
          [] n = "TAG_SERVICE_MAPPING" -> <<"a","p","i",":","8","4","4","3",":","t","c","p",","," ","w","e","b"," ",":"," ","8","1",",","x",":","y">>
          [] n = "DEFAULT_SCHEME" -> <<"h","t","t","p","s">>
          [] n = "DEFAULT_PROTOCOL" -> <<"T","C","P">>
          [] n = "SERVICE_DOMAIN_MAPPING" -> <<"w","e","b",":","a",".","i","o",","," ","d","b">>]

\* the three filters are set
EnvFilters ==
    [n \in {"INCLUDE_TAGS", "EXCLUDE_HOSTNAMES", "INCLUDE_OS"} |->
        CASE n = "INCLUDE_TAGS" -> <<"t","a","g",":","w","e","b","-","3","0","0","0",","," ","d","b","-","5","4","3","2","-","t","c","p">>
          [] n = "EXCLUDE_HOSTNAMES" -> <<"b","o","x",".","2">>
          [] n = "INCLUDE_OS" -> <<"l","i","n","u","x">>]

\* values that do not parse, and tables without a usable entry
EnvUnparsable ==
    [n \in {"DEFAULT_PORT", "UPDATE_INTERVAL_SECONDS", "MAX_INACTIVE_SECONDS",
            "TAG_SERVICE_MAPPING", "SERVICE_DOMAIN_MAPPING", "DEFAULT_PROTOCOL"} |->
        CASE n = "DEFAULT_PORT" -> <<"7","0","0","0","0">>
          [] n = "UPDATE_INTERVAL_SECONDS" -> <<"s","o","o","n">>
          [] n = "MAX_INACTIVE_SECONDS" -> <<>>
          [] n = "TAG_SERVICE_MAPPING" -> <<"a","p","i">>
          [] n = "SERVICE_DOMAIN_MAPPING" -> <<"w","e","b">>
          [] n = "DEFAULT_PROTOCOL" -> <<"q","u","i","c">>]

\* extraction from tags is off and the table names the whole tag web-3000
EnvCollide ==
    [n \in {"EXTRACT_PROTOCOL_FROM_TAG", "TAG_SERVICE_MAPPING"} |->
        CASE n = "EXTRACT_PROTOCOL_FROM_TAG" -> <<"f","a","l","s","e">>
          [] n = "TAG_SERVICE_MAPPING" -> <<"w","e","b","-","3","0","0","0",":","8","1">>]

\* an include-tag set together with an explicit table
EnvIncludeMapped ==
    [n \in {"INCLUDE_TAGS", "TAG_SERVICE_MAPPING"} |->
        CASE n = "INCLUDE_TAGS" -> <<"w","e","b",",","d","n","s","-","5","3","-","u","d","p">>
          [] n = "TAG_SERVICE_MAPPING" -> <<"w","e","b","-","3","0","0","0",":","8","1",",","d","n","s","-","5","3","-","u","d","p",":","5","3","5","3",":","u","d","p">>]

\* the include-tag set holds a whole tag, port included
EnvIncludeWholeTag ==
    [n \in {"INCLUDE_TAGS"} |-> <<"w","e","b","-","3","0","0","0">>]

\* a peer without tags whose host name ends in the name of a descriptor
PeerBox1DashWeb ==
    [PeerBox1Web EXCEPT !.hostname = <<"b","o","x","1","-","w","e","b">>, !.tailscale_ips = <<Ip6>>,
                        !.tags = None]

EnvPool == {NoEnv, EnvHealth, EnvCustom, EnvFilters, EnvUnparsable, EnvCollide,
            EnvIncludeMapped, EnvIncludeWholeTag}

\* the status documents of the daemon: up to MaxPeers entries, each a web
\* peer, a database peer, an exit node, the untagged peer box1-web or a
\* peer without a mesh IP
EnvPeers == {PeerBox1Web, PeerDb, PeerExit, PeerBox1DashWeb, PeerNoIp}

EnvStatusPool ==
    { [peers |-> Some(m)] :
        m \in UNION { [ks -> {Some(p) : p \in EnvPeers}] : ks \in SUBSET PeerKeys } }

InitEnv ==
    /\ env \in EnvPool
    /\ config = from_env(env)
    /\ now = MaxNow
    /\ status \in EnvStatusPool
    /\ gen = [r \in Runs |-> GenIdle]
    /\ TagIdle /\ FilterIdle /\ ProcessIdle /\ ClientIdle

SpecEnv == InitEnv /\ [][NextSynth]_vars

-----------------------------------------------------------------------------
(* Claims about the cache and the tasks of main.rs (Spec) *)

\* a step of task t's failed attempt: its generate_config returns Err, or
\* the task handles the Err it got
FailureStep(t) ==
    /\ gen'[t] # gen[t]
    /\ gen[t].phase = "err" \/ gen'[t].phase = "err"

C1_Step ==
    /\ (\E t \in Tasks : FailureStep(t)) => cache' = cache
    /\ cache' # cache =>
          \E t \in Tasks : gen[t].phase = "ok" /\ gen'[t] # gen[t]
                           /\ cache' = gen[t].result

\* C1: a failed synthesis attempt (scheduled refresh, initial load or
\* on-demand request) leaves the cache as it was, and the cache keeps its
\* value until a step in which a task whose generate_config returned Ok
\* stores its result.
C1_FailureKeepsCache == [][C1_Step]_vars

\* C1 witness: a refresh cycle has failed while the cache is populated
C1_Witness ==
    /\ cache # None
    /\ gen[RefreshTask].phase = "err"

\* nothing has been spawned, generated, cached, bound or served
NothingStarted ==
    /\ refreshPc = "off"
    /\ cache = None
    /\ ~listening
    /\ \A t \in Tasks : gen[t] = GenIdle
    /\ \A i \in Requests : reqPc[i] = "idle" /\ response[i] = None

\* C2: when test_connection fails, main has returned before the refresh task
\* is spawned, before any configuration is generated or cached and before
\* the listener is bound, and nothing happens afterwards: no request is
\* served and no refresh cycle runs.
C2_FatalConnectionCheck ==
    /\ [](mainPc = "conn_failed" => NothingStarted)
    /\ [][mainPc # "conn_failed"]_vars

\* C2 witness: the connectivity check has failed
C2_Witness == mainPc = "conn_failed"

\* the configurations one generate_config run can return in this process
\* (config and now keep the values Init gives them)
DaemonOutputs ==
    UNION { generate_config(from_env(NoEnv), s, 3) : s \in DaemonStatusPool }

\* c is the complete output of one generate_config run on some document
WholeRun(c) == c \in DaemonOutputs

C3_State ==
    /\ cache # None => WholeRun(Unwrap(cache))
    /\ \A i \in Requests :
          (response[i] # None /\ Unwrap(response[i]).code = 200) =>
              /\ IsSome(Unwrap(response[i]).body)
              /\ WholeRun(Unwrap(Unwrap(response[i]).body))

C3_Step ==
    cache' # cache =>
        \E t \in Tasks : /\ lock.writer = Some(t)
                         /\ gen[t].phase = "ok"
                         /\ cache' = gen[t].result

\* C3: the cache changes only by a swap, made under the write lock, that
\* stores the whole result of one successful generate_config run; the cache
\* and every 200 response hold either nothing or the complete output of a
\* single run, never a mix of two runs or a partly built configuration.
C3_AtomicSwap == []C3_State /\ [][C3_Step]_vars

\* C3 witness: a request has been answered from the cache while the refresh
\* task is half-way through building the next configuration
C3_Witness ==
    /\ cache # None
    /\ \E i \in Requests : response[i] = Some([code |-> 200, body |-> cache])
    /\ gen[RefreshTask].phase = "synth"
    /\ gen[RefreshTask].acc # EmptyAcc

C4_State ==
    /\ \A t \in Tasks :
          gen[t].phase \in {"fetching", "synth"} =>
              (lock.writer # Some(t) /\ t \notin lock.readers)
    /\ \A t \in Tasks : lock.writer = Some(t) => gen[t].phase = "ok"

C4_Step ==
    /\ (lock.writer # None /\ lock' # lock) =>
          /\ lock'.writer = None
          /\ cache' = gen[Unwrap(lock.writer)].result
    /\ \A i \in Requests :
          (reqPc[i] = "reading" /\ cache # None /\ reqPc'[i] # "reading") =>
              /\ reqPc'[i] = "done"
              /\ response'[i] = Some([code |-> 200, body |-> cache])
              /\ gen'[Req(i)] = GenIdle

\* C4: no task holds the cache lock while its status fetch or synthesis is
\* in progress: the write lock is held only by a task whose generate_config
\* has returned Ok and is released in the step that swaps; a reader that
\* finds the cache non-empty answers from it without calling
\* generate_config; a reader that finds it empty has dropped its read guard
\* before it fetches.
C4_NoLockDuringFetch == []C4_State /\ [][C4_Step]_vars

\* C4 witness: one request is fetching on demand without any lock while
\* another request holds the read lock and the refresh task is generating
C4_Witness ==
    \E i, j \in Requests :
        /\ i # j
        /\ gen[Req(i)].phase = "fetching"
        /\ Req(i) \notin lock.readers
        /\ Req(j) \in lock.readers
        /\ gen[RefreshTask].phase \in {"fetching", "synth"}

-----------------------------------------------------------------------------
(* Claims about the peer filter (SpecFilter) *)

NoSections == [http |-> None, tcp |-> None, udp |-> None]

\* C7: a peer that is offline (Online false or absent) is rejected by
\* should_include_peer under every policy, and generate_config on a document
\* holding that peer returns a configuration without any router or service.
C7_OfflineExcluded ==
    peer.online # Some(TRUE) =>
        /\ IsSome(verdict) => verdict = Some(FALSE)
        /\ gen[Solo].phase = "ok" => gen[Solo].result = Some(NoSections)

\* C7 witness: an offline peer that every other rule accepts and that would
\* yield a service has been rejected and has been synthesized to nothing
C7_Witness ==
    /\ peer.online = Some(FALSE)
    /\ should_include_peer(config, [peer EXCEPT !.online = Some(TRUE)], now)
    /\ peer.tags = Some(<<TagWeb3000>>)
    /\ peer.tailscale_ips # <<>>
    /\ verdict = Some(FALSE)
    /\ gen[Solo].phase = "ok"

\* C8: for two policies that differ only in exclude_exit_nodes, a peer
\* included with exclude_exit_nodes = true is included with
\* exclude_exit_nodes = false (the included set can only shrink when the
\* toggle is enabled).
C8_ExitToggleMonotone ==
    IsSome(verdict) =>
        /\ (config.exclude_exit_nodes /\ Unwrap(verdict)) =>
              should_include_peer([config EXCEPT !.exclude_exit_nodes = FALSE], peer, now)
        /\ (~config.exclude_exit_nodes /\ ~Unwrap(verdict)) =>
              ~should_include_peer([config EXCEPT !.exclude_exit_nodes = TRUE], peer, now)

\* C8 witness: an exit node included with the toggle off, which the same
\* policy with the toggle on rejects
C8_Witness ==
    /\ verdict = Some(TRUE)
    /\ peer.exit_node
    /\ ~config.exclude_exit_nodes
    /\ ~should_include_peer([config EXCEPT !.exclude_exit_nodes = TRUE], peer, now)

-----------------------------------------------------------------------------
(* Claims about the synthesis pipeline (SpecSynth) *)

\* a section that is present holds at least one router or service
SectionNonEmpty(sec) ==
    IsSome(sec) => (Unwrap(sec).routers # EmptyMap \/ Unwrap(sec).services # EmptyMap)

\* the document has zero peers: no peer map, or an empty one
ZeroPeers(s) == s.peers = None \/ DOMAIN Unwrap(s.peers) = {}

\* C5: in the configuration returned by a successful run, a protocol section
\* is present only if it holds at least one router or service; a document
\* with zero peers (no peer map or an empty one) yields none of the three
\* sections.
C5_SectionsOnlyIfNonEmpty ==
    \A r \in Runs :
        gen[r].phase = "ok" =>
            LET c == Unwrap(gen[r].result)
            IN  /\ SectionNonEmpty(c.http)
                /\ SectionNonEmpty(c.tcp)
                /\ SectionNonEmpty(c.udp)
                /\ ZeroPeers(status) => c = NoSections

\* C6: two runs of the pipeline on the same document, policy and clock
\* return equal configurations, whatever order each run visits the peer map
\* in.
C6_Idempotent ==
    (gen[Run(1)].phase = "ok" /\ gen[Run(2)].phase = "ok") =>
        gen[Run(1)].result = gen[Run(2)].result

\* the service maps and router maps of a run, by protocol
ServicesOf(acc, proto) ==
    IF proto = "Http" THEN acc.http_services
    ELSE IF proto = "Tcp" THEN acc.tcp_services ELSE acc.udp_services
RoutersOf(acc, proto) ==
    IF proto = "Http" THEN acc.http_routers
    ELSE IF proto = "Tcp" THEN acc.tcp_routers ELSE acc.udp_routers

\* entry k of the peer map of g is a peer that passes should_include_peer
IncludedEntry(g, k) ==
    /\ IsSome(g.peers[k])
    /\ should_include_peer(config, Unwrap(g.peers[k]), now)

\* some visited, included peer of g with a mesh IP yields a descriptor of
\* protocol proto for which name_of gives the name
FromIncludedPeer(g, proto, name, name_of(_, _)) ==
    \E k \in (DOMAIN g.peers) \ g.pending :
        /\ IncludedEntry(g, k)
        /\ Unwrap(g.peers[k]).tailscale_ips # <<>>
        /\ LET infos == extract_service_infos_from_peer(config, Unwrap(g.peers[k]))
           IN  \E i \in 1..Len(infos) :
                  /\ infos[i].protocol = proto
                  /\ name_of(Unwrap(g.peers[k]), infos[i]) = name

\* the section of protocol proto in a DynamicConfig
SectionOf(c, proto) ==
    IF proto = "Http" THEN c.http ELSE IF proto = "Tcp" THEN c.tcp ELSE c.udp

\* every entry built so far, and every entry of a returned configuration,
\* comes from a visited peer that passes should_include_peer
C9_EntriesFromIncluded ==
    \A r \in Runs : \A proto \in {"Http", "Tcp", "Udp"} :
        /\ \A name \in DOMAIN ServicesOf(gen[r].acc, proto) :
              FromIncludedPeer(gen[r], proto, name, generate_service_name_from_info)
        /\ \A name \in DOMAIN RoutersOf(gen[r].acc, proto) :
              FromIncludedPeer(gen[r], proto, name, generate_router_name_from_info)
        /\ (gen[r].phase = "ok" /\ IsSome(SectionOf(Unwrap(gen[r].result), proto))) =>
              /\ Unwrap(SectionOf(Unwrap(gen[r].result), proto)).services
                    = ServicesOf(gen[r].acc, proto)
              /\ Unwrap(SectionOf(Unwrap(gen[r].result), proto)).routers
                    = RoutersOf(gen[r].acc, proto)

\* a step that visits an entry which is null or fails should_include_peer
\* leaves the six maps as they were

C9_ExcludedAddsNothing ==
    \A r \in Runs : \A k \in PeerKeys :
        (/\ gen[r].phase = "synth"
         /\ k \in gen[r].pending
         /\ gen'[r].pending = gen[r].pending \ {k}
         /\ ~IncludedEntry(gen[r], k))
        => gen'[r].acc = gen[r].acc

\* C9: every router and service of a synthesized configuration was generated
\* from a (peer, descriptor) pair whose peer passes should_include_peer, and
\* visiting a peer that does not pass (an exit node while exclude_exit_nodes
\* is true, for example) adds no entry to any of the three sections.
C9_OnlyIncludedPeersContribute ==
    /\ []C9_EntriesFromIncluded
    /\ [][C9_ExcludedAddsNothing]_vars

\* C9 witness: a run has finished on a document holding an exit node and an
\* included peer, with exclude_exit_nodes on, and only the included peer's
\* service is in the result
C9_Witness ==
    /\ config.exclude_exit_nodes
    /\ gen[Run(1)].phase = "ok"
    /\ IsSome(status.peers)
    /\ \E k \in DOMAIN Unwrap(status.peers) : Unwrap(status.peers)[k] = Some(PeerExit)
    /\ \E k \in DOMAIN Unwrap(status.peers) : Unwrap(status.peers)[k] = Some(PeerBox1Web)
    /\ IsSome(Unwrap(gen[Run(1)].result).http)
    /\ Cardinality(DOMAIN Unwrap(Unwrap(gen[Run(1)].result).http).services) = 1
    /\ Unwrap(gen[Run(1)].result).tcp = None
    /\ Unwrap(gen[Run(1)].result).udp = None

-----------------------------------------------------------------------------
(* Claims about the tag parser (SpecTag) *)

\* the dash-separated segments of the tag in the state, "tag:" stripped
TagSegments == Split(StripPrefix(tag, TagPrefix), "-")

\* C10: with extract_protocol_from_tag enabled, the result of
\* parse_service_info_from_tag follows the positional rules: 1 segment gives
\* the segment as name with the default port; 2 or 3 segments give name =
\* seg[0], port = seg[1]; 4 or more give name = all but the last two segments
\* joined by "-" and port = the second-to-last; a port segment that is not a
\* valid u16 gives None.  "db-5432-tcp" gives {db, 5432, Tcp, "tcp"}, "web"
\* gives the defaults and "db-notaport" gives None.
C10_PositionalRules ==
    (IsSome(parsed) /\ config.extract_protocol_from_tag) =>
        LET r == Unwrap(parsed)
            segs == TagSegments
            n == Len(segs)
            portSeg == IF n <= 3 THEN segs[2] ELSE segs[n - 1]
        IN  /\ n = 1 => /\ IsSome(r)
                        /\ Unwrap(r).name = segs[1]
                        /\ Unwrap(r).port = Some(config.default_port)
            /\ (n >= 2 /\ ParseU16(portSeg) = None) => r = None
            /\ (n \in {2, 3} /\ IsSome(ParseU16(portSeg))) =>
                        /\ IsSome(r)
                        /\ Unwrap(r).name = segs[1]
                        /\ Unwrap(r).port = ParseU16(segs[2])
            /\ (n >= 4 /\ IsSome(ParseU16(portSeg))) =>
                        /\ IsSome(r)
                        /\ Unwrap(r).name = Join(SubSeq(segs, 1, n - 2), <<"-">>)
                        /\ Unwrap(r).port = ParseU16(segs[n - 1])
            /\ tag = <<"d","b","-","5","4","3","2","-","t","c","p">> =>
                        r = Some([name |-> <<"d","b">>, port |-> Some(5432),
                                  protocol |-> "Tcp", scheme |-> StrTcp])
            /\ tag = <<"w","e","b">> =>
                        r = Some([name |-> <<"w","e","b">>,
                                  port |-> Some(config.default_port),
                                  protocol |-> config.default_protocol,
                                  scheme |-> config.default_scheme])
            /\ tag = <<"d","b","-","n","o","t","a","p","o","r","t">> => r = None

\* C10 witness: a 4-segment tag has been parsed with extraction enabled
C10_Witness ==
    /\ config.extract_protocol_from_tag
    /\ tag = <<"m","y","-","a","p","p","-","8","0","8","0","-","h","t","t","p">>
    /\ parsed = Some(Some([name |-> <<"m","y","-","a","p","p">>, port |-> Some(8080),
                           protocol |-> "Http", scheme |-> StrHttp]))

\* a well-formed descriptor: a name, a u16 port, one of the three protocols
\* and a scheme
IsDescriptor(d) ==
    /\ DOMAIN d = {"name", "port", "protocol", "scheme"}
    /\ IsSome(d.port) /\ Unwrap(d.port) \in 0..U16Max
    /\ d.protocol \in {"Http", "Tcp", "Udp"}
    /\ d.scheme \in {StrHttp, StrHttps, StrTcp, StrUdp}

\* C11: parse_service_info_from_tag returns, for every tag, either None or a
\* well-formed descriptor; with extraction enabled and a tag of 1 to 3
\* segments it returns None exactly when the tag has a port segment that is
\* not a valid u16 (never for a 1-segment tag); with extraction disabled it
\* returns, for every tag, the descriptor whose name is the cleaned tag and
\* whose port, protocol and scheme are the policy defaults.
C11_TotalParse ==
    IsSome(parsed) =>
        LET r == Unwrap(parsed)
            segs == TagSegments
            n == Len(segs)
        IN  /\ r = None \/ IsDescriptor(Unwrap(r))
            /\ (config.extract_protocol_from_tag /\ n <= 3) =>
                  (r = None <=> (n >= 2 /\ ParseU16(segs[2]) = None))
            /\ ~config.extract_protocol_from_tag =>
                  r = Some([name |-> StripPrefix(tag, TagPrefix),
                            port |-> Some(config.default_port),
                            protocol |-> config.default_protocol,
                            scheme |-> config.default_scheme])

\* C11 witness: with extraction disabled, the prefixed tag "tag:web-3000" has
\* given the descriptor named "web-3000" with the default port
C11_Witness ==
    /\ ~config.extract_protocol_from_tag
    /\ tag = TagWeb3000
    /\ IsSome(parsed) /\ IsSome(Unwrap(parsed))
    /\ Unwrap(Unwrap(parsed)).name = <<"w","e","b","-","3","0","0","0">>
    /\ Unwrap(Unwrap(parsed)).port = Some(config.default_port)

-----------------------------------------------------------------------------
(* Claims about generated names and records (SpecSynth) *)

\* the hostname lower-cased, every "." and "_" replaced by "-"
Sanitized(h) ==
    [i \in 1..Len(h) |->
        IF h[i] = "." \/ h[i] = "_" THEN "-" ELSE ToLowerChar(h[i])]

\* the service name the claim states for a hostname and a descriptor name
StatedServiceName(h, n) ==
    IF n = <<"d","e","f","a","u","l","t">>
    THEN <<"t","a","i","l","s","c","a","l","e","-">> \o Sanitized(h)
    ELSE <<"t","a","i","l","s","c","a","l","e","-">> \o Sanitized(h) \o <<"-">> \o n

StatedRouterName(h, n) == StatedServiceName(h, n) \o <<"-","r","o","u","t","e","r">>

\* the descriptors a peer yields under the policy of the state
InfosOf(p) ==
    LET s == extract_service_infos_from_peer(config, p)
    IN  { s[i] : i \in 1..Len(s) }

\* the (peer, descriptor) pairs run g has processed: each visited peer that
\* passes the filter and has a mesh IP, with each descriptor it yields
ProcessedPairs(g) ==
    UNION { { <<Unwrap(g.peers[k]), info>> : info \in InfosOf(Unwrap(g.peers[k])) } :
              k \in { x \in (DOMAIN g.peers) \ g.pending :
                        /\ IncludedEntry(g, x)
                        /\ Unwrap(g.peers[x]).tailscale_ips # <<>> } }

\* the pairs of ProcessedPairs(g) whose descriptor has protocol proto
PairsOf(g, proto) == { pr \in ProcessedPairs(g) : pr[2].protocol = proto }

\* C12: the names a run generates are the stated function of (hostname,
\* descriptor name): "tailscale-" + sanitize(hostname), followed by "-" +
\* descriptor name unless that name is "default", and the router name is the
\* service name + "-router"; the keys of the service and router maps are
\* exactly these names, and a second run on the same input generates the
\* same names.
C12_NamesPure ==
    /\ \A r \in Runs : \A proto \in {"Http", "Tcp", "Udp"} :
          /\ DOMAIN ServicesOf(gen[r].acc, proto) =
                { StatedServiceName(pr[1].hostname, pr[2].name) : pr \in PairsOf(gen[r], proto) }
          /\ DOMAIN RoutersOf(gen[r].acc, proto) =
                { StatedRouterName(pr[1].hostname, pr[2].name) : pr \in PairsOf(gen[r], proto) }
    /\ (gen[Run(1)].phase = "ok" /\ gen[Run(2)].phase = "ok") =>
          \A proto \in {"Http", "Tcp", "Udp"} :
              /\ DOMAIN ServicesOf(gen[Run(1)].acc, proto)
                    = DOMAIN ServicesOf(gen[Run(2)].acc, proto)
              /\ DOMAIN RoutersOf(gen[Run(1)].acc, proto)
                    = DOMAIN RoutersOf(gen[Run(2)].acc, proto)

\* C12 witness: both runs have finished on a document holding the untagged
\* peer "box_2" and the peer "box.2", and both hold the names tailscale-box-2
\* (default descriptor) and tailscale-box-2-db
C12_Witness ==
    /\ config = DefaultConfig
    /\ gen[Run(1)].phase = "ok" /\ gen[Run(2)].phase = "ok"
    /\ \A r \in Runs :
          /\ <<"t","a","i","l","s","c","a","l","e","-","b","o","x","-","2">>
                \in DOMAIN gen[r].acc.http_services
          /\ <<"t","a","i","l","s","c","a","l","e","-","b","o","x","-","2","-","d","b">>
                \in DOMAIN gen[r].acc.tcp_services
          /\ <<"t","a","i","l","s","c","a","l","e","-","b","o","x","-","2","-","d","b",
               "-","r","o","u","t","e","r">> \in DOMAIN gen[r].acc.tcp_routers

\* the port the claim states for a descriptor: its own, else the default
StatedPort(info) == IF info.port = None THEN config.default_port ELSE info.port[1]

\* the backend address the claim states: "ip:port" with the first mesh IP
StatedAddress(p, info) == Head(p.tailscale_ips) \o <<":">> \o IntToStr(StatedPort(info))

\* the service the claim states for a pair, by protocol
StatedService(proto, p, info) ==
    IF proto = "Http"
    THEN [load_balancer |->
            [servers |-> << [url |-> info.scheme \o <<":","/","/">> \o StatedAddress(p, info),
                             weight |-> <<1>>] >>,
             health_check |->
                IF config.health_check_path = None THEN None
                ELSE << [path |-> config.health_check_path[1],
                         interval |-> << <<"3","0","s">> >>,
                         timeout |-> << <<"5","s">> >>] >>]]
    ELSE [load_balancer |->
            [servers |-> << [address |-> StatedAddress(p, info), weight |-> <<1>>] >>]]

\* the processed pairs of protocol proto that generate the service name
PairsNamed(g, proto, name) ==
    { pr \in PairsOf(g, proto) : StatedServiceName(pr[1].hostname, pr[2].name) = name }

\* C13: every service of a run is the stated service of a processed (peer,
\* descriptor) pair that generates its name: one backend of weight 1 at
\* "scheme://ip:port" (HTTP) or "ip:port" (TCP, UDP) with the peer's first
\* mesh IP and the descriptor's port (the default port if it has none); an
\* HTTP service carries a health check (interval 30s, timeout 5s) exactly
\* when the policy has a health-check path, a TCP or UDP service carries
\* none.  A document holding only the online peer box1 (100.64.0.5, tag
\* web-3000) under the default policy gives the HTTP service
\* tailscale-box1-web with backend http://100.64.0.5:3000.
C13_BackendRecords ==
    /\ \A r \in Runs : \A proto \in {"Http", "Tcp", "Udp"} :
          \A name \in DOMAIN ServicesOf(gen[r].acc, proto) :
              LET svc == ServicesOf(gen[r].acc, proto)[name]
              IN  /\ \E pr \in PairsNamed(gen[r], proto, name) :
                         svc = StatedService(proto, pr[1], pr[2])
                  /\ Len(svc.load_balancer.servers) = 1
                  /\ svc.load_balancer.servers[1].weight = Some(1)
                  /\ proto = "Http" =>
                        (IsSome(svc.load_balancer.health_check)
                            <=> IsSome(config.health_check_path))
                  /\ proto # "Http" => DOMAIN svc.load_balancer = {"servers"}
    /\ \A r \in Runs :
          (/\ gen[r].phase = "ok"
           /\ config = DefaultConfig
           /\ status = [peers |-> Some([k \in {1} |-> Some(PeerBox1Web)])])
          => /\ DOMAIN gen[r].acc.http_services =
                   { <<"t","a","i","l","s","c","a","l","e","-","b","o","x","1","-","w","e","b">> }
             /\ gen[r].acc.http_services[
                   <<"t","a","i","l","s","c","a","l","e","-","b","o","x","1","-","w","e","b">>
                ].load_balancer.servers[1].url =
                   <<"h","t","t","p",":","/","/","1","0","0",".","6","4",".","0",".","5",
                     ":","3","0","0","0">>

\* C13 witness: a run has finished on a document holding the two-IP peer
\* "box.2" and the peer box1: the TCP service of box.2 has the backend
\* 100.64.0.6:5432 and the HTTP service of box1 is health-checked
C13_Witness ==
    /\ config = DefaultConfig
    /\ gen[Run(1)].phase = "ok"
    /\ IsSome(status.peers)
    /\ \E k \in DOMAIN Unwrap(status.peers) : Unwrap(status.peers)[k] = Some(PeerDb)
    /\ \E k \in DOMAIN Unwrap(status.peers) : Unwrap(status.peers)[k] = Some(PeerBox1Web)
    /\ \E name \in DOMAIN gen[Run(1)].acc.tcp_services :
          gen[Run(1)].acc.tcp_services[name].load_balancer.servers[1].address =
              <<"1","0","0",".","6","4",".","0",".","6",":","5","4","3","2">>
    /\ \E name \in DOMAIN gen[Run(1)].acc.http_services :
          IsSome(gen[Run(1)].acc.http_services[name].load_balancer.health_check)

\* the descriptor name has an entry in the service-to-domain table
HasDomain(n) ==
    /\ config.service_domain_mapping # None
    /\ n \in DOMAIN config.service_domain_mapping[1]

\* the rule the claim states for a router of protocol proto (HTTP or TCP)
StatedRule(proto, n) ==
    IF proto = "Http"
    THEN (IF HasDomain(n)
          THEN <<"H","o","s","t","(",BackTick>> \o config.service_domain_mapping[1][n]
                  \o <<BackTick,")">>
          ELSE <<"H","o","s","t","R","e","g","e","x","p","(",BackTick,".","*",BackTick,")">>)
    ELSE (IF HasDomain(n)
          THEN <<"H","o","s","t","S","N","I","(",BackTick>>
                  \o config.service_domain_mapping[1][n] \o <<BackTick,")">>
          ELSE <<"H","o","s","t","S","N","I","(",BackTick,"*",BackTick,")">>)

\* the processed pairs of protocol proto that generate the router name
PairsRouted(g, proto, name) ==
    { pr \in PairsOf(g, proto) : StatedRouterName(pr[1].hostname, pr[2].name) = name }

\* C14: every HTTP router of a run has the rule Host(`domain`) when the name
\* of its descriptor has an entry in the service-to-domain table and the
\* catch-all HostRegexp(`.*`) otherwise; every TCP router has HostSNI(`domain`)
\* when such an entry exists and HostSNI(`*`) otherwise; a UDP router has no
\* rule, only the reference to its service.
C14_RouterRules ==
    \A r \in Runs : \A proto \in {"Http", "Tcp", "Udp"} :
        \A name \in DOMAIN RoutersOf(gen[r].acc, proto) :
            LET rt == RoutersOf(gen[r].acc, proto)[name]
            IN  /\ \E pr \in PairsRouted(gen[r], proto, name) :
                      /\ rt.service = StatedServiceName(pr[1].hostname, pr[2].name)
                      /\ proto # "Udp" => rt.rule = StatedRule(proto, pr[2].name)
                /\ proto = "Udp" => DOMAIN rt = {"service"}

\* C14 witness: under the policy whose table maps web and db to a domain, a
\* run has finished with an HTTP router on Host(`a.io`), a TCP router on
\* HostSNI(`a.io`) and a UDP router
C14_Witness ==
    /\ IsSome(config.service_domain_mapping)
    /\ gen[Run(1)].phase = "ok"
    /\ \E name \in DOMAIN gen[Run(1)].acc.http_routers :
          gen[Run(1)].acc.http_routers[name].rule =
              <<"H","o","s","t","(",BackTick,"a",".","i","o",BackTick,")">>
    /\ \E name \in DOMAIN gen[Run(1)].acc.tcp_routers :
          gen[Run(1)].acc.tcp_routers[name].rule =
              <<"H","o","s","t","S","N","I","(",BackTick,"a",".","i","o",BackTick,")">>
    /\ gen[Run(1)].acc.udp_routers # EmptyMap

-----------------------------------------------------------------------------
(* Claims about the Tailscale client (SpecClient) *)

\* the transport gave a 2xx response whose body is a status document
GoodReply(r) ==
    /\ r.kind = "response"
    /\ r.status >= 200 /\ r.status <= 299
    /\ r.body.kind = "status"

\* C15: the outcome of a status fetch is classified and never masked: a
\* non-2xx response gives an ApiError whose message carries the status code,
\* a 2xx body that does not decode gives a JsonParse error, a failed request
\* gives a SocketConnection error; the fetch returns a status document only
\* for a 2xx response whose body decodes, and then that document; after a
\* failed get_status, generate_config has returned the error and no
\* configuration.
C15_FetchClassified ==
    (IsSome(reply) /\ IsSome(fetched)) =>
        LET r == Unwrap(reply)
            f == Unwrap(fetched)
        IN  /\ r.kind = "send_error" => (~f.ok /\ f.error.kind = "SocketConnection")
            /\ (r.kind = "response" /\ (r.status < 200 \/ r.status > 299)) =>
                  /\ ~f.ok
                  /\ f.error.kind = "ApiError"
                  /\ Contains(f.error.msg, IntToStr(r.status))
            /\ (r.kind = "response" /\ r.status >= 200 /\ r.status <= 299
                  /\ r.body.kind \in {"not_json", "incomplete_json"}) =>
                  (~f.ok /\ f.error.kind = "JsonParse")
            /\ f.ok <=> GoodReply(r)
            /\ f.ok => f.value = r.body.doc
            /\ (~f.ok /\ WithPeers) =>
                  (gen[Caller].phase = "err" /\ gen[Caller].result = None)

\* C15 witness: a 200 response whose body is not JSON has given a JsonParse
\* error and generate_config has failed
C15_Witness ==
    /\ IsSome(reply) /\ IsSome(fetched)
    /\ Unwrap(reply).kind = "response"
    /\ Unwrap(reply).status = 200
    /\ Unwrap(reply).body.kind = "not_json"
    /\ ~Unwrap(fetched).ok
    /\ Unwrap(fetched).error.kind = "JsonParse"
    /\ WithPeers
    /\ gen[Caller].phase = "err"

\* the descriptor is of the local-TCP form
IsTcpDescriptor == socket_path[1] = "t" /\ SubSeq(socket_path, 1, 6) = <<"t","c","p",":","/","/">>

\* the colon-separated segments of a local-TCP descriptor after "tcp://"
DescriptorSegments == Split(SubSeq(socket_path, 7, Len(socket_path)), ":")

\* the Authorization header stated for the descriptors of the pool that
\* carry a token: "Basic " + base64(":" + token)
StatedAuthorization ==
    IF socket_path = <<"t","c","p",":","/","/","h",":","1",":","a","b","c">> THEN <<"B","a","s","i","c"," ","O","m","F","i","Y","w","=","=">>
    ELSE IF socket_path = <<"t","c","p",":","/","/","h",":","1",":">> THEN <<"B","a","s","i","c"," ","O","g","=","=">>
    ELSE IF socket_path = <<"t","c","p",":","/","/","h",":","1",":","a","b",":","c","d">> THEN <<"B","a","s","i","c"," ","O","m","F","i">>
    ELSE <<"B","a","s","i","c"," ","O","n","M","z">>

\* C16: a request carries an Authorization header exactly when the client
\* was built from a local-TCP descriptor with a token segment (a third
\* colon-separated segment), and the header is then "Basic " + base64(":" +
\* that segment); a TCP descriptor without a token segment, the Unix-socket
\* variant and the named-pipe variant send every request without one.
C16_CredentialRelay ==
    IsSome(request) =>
        LET h == Unwrap(request).headers
            tokened == IsTcpDescriptor /\ Len(DescriptorSegments) >= 3
        IN  /\ "Authorization" \in DOMAIN h <=> tokened
            /\ tokened => h["Authorization"] = StatedAuthorization
            /\ Unwrap(client).value.kind \in {"Unix", "NamedPipe"} =>
                  "Authorization" \notin DOMAIN h

\* C16 witness: a request with the header Basic OmFiYw== has been built for
\* the descriptor tcp://h:1:abc
C16_Witness ==
    /\ socket_path = <<"t","c","p",":","/","/","h",":","1",":","a","b","c">>
    /\ IsSome(request)
    /\ "Authorization" \in DOMAIN Unwrap(request).headers
    /\ Unwrap(request).headers["Authorization"] = <<"B","a","s","i","c"," ","O","m","F","i","Y","w","=","=">>

-----------------------------------------------------------------------------
(* Claims about the policy read from the environment (SpecEnv) *)

\* the HTTP services a finished run has generated
GeneratedHttpServices(r) ==
    IF gen[r].phase = "ok"
    THEN { gen[r].acc.http_services[n] : n \in DOMAIN gen[r].acc.http_services }
    ELSE {}

\* C17: when no policy option is set, the policy in effect has the stated
\* defaults (port 80, protocol HTTP, scheme "http", exclude-exit-nodes,
\* exclude-expired and extract-protocol-from-tag true, health-check path
\* "/health", refresh interval 30 seconds, no include-tag, exclude-hostname,
\* include-OS or max-inactivity filter), and every generated HTTP service
\* carries a health check on the path "/health".
C17_DefaultsInEffect ==
    env = NoEnv =>
        /\ config.default_port = 80
        /\ config.default_protocol = "Http"
        /\ config.default_scheme = StrHttp
        /\ config.exclude_exit_nodes
        /\ config.exclude_expired
        /\ config.extract_protocol_from_tag
        /\ config.health_check_path = Some(StrHealth)
        /\ config.update_interval_seconds = 30
        /\ config.include_tags = None
        /\ config.exclude_hostnames = None
        /\ config.include_os = None
        /\ config.max_inactive_seconds = None
        /\ \A r \in Runs : \A svc \in GeneratedHttpServices(r) :
              /\ IsSome(svc.load_balancer.health_check)
              /\ Unwrap(svc.load_balancer.health_check).path = StrHealth

-----------------------------------------------------------------------------
(* Claims about the on-demand path and the refresh loop (Spec, SpecLive) *)

\* request i is in its own on-demand cycle: it found the cache empty and its
\* generate_config call is in progress or has returned
InOnDemandCycle(i) == reqPc[i] \in {"gen", "locked"}

\* a step in which request i writes the cache
OnDemandWrite(i) == reqPc[i] = "locked" /\ reqPc'[i] = "done"

\* C18: the on-demand path is not deduplicated.  A request that has read an
\* empty cache can start its own fetch+synthesize cycle whatever the other
\* requests are doing; a cycle that returned Ok and finds the lock free can
\* take it; and the request that writes stores and answers with the result
\* of its own cycle, leaving the cycles of the other requests as they are
\* (nothing merges them).
C18_NotDeduplicated ==
    /\ [](\A i \in Requests :
            /\ (~Ended /\ reqPc[i] = "reading" /\ cache = None) => ENABLED ReqMiss(i)
            /\ (~Ended /\ reqPc[i] = "gen" /\ gen[Req(i)].phase = "ok" /\ LockFree)
                  => ENABLED ReqAcquire(i))
    /\ [][\A i \in Requests : OnDemandWrite(i) =>
            /\ cache' = gen[Req(i)].result
            /\ response'[i] = Some([code |-> 200, body |-> gen[Req(i)].result])
            /\ \A j \in Requests \ {i} :
                  gen'[Req(j)] = gen[Req(j)] /\ reqPc'[j] = reqPc[j]]_vars

\* C18 witness: two on-demand cycles are in flight at once and each of them
\* writes: request 1 holds the write lock for the result of its cycle while
\* the cycle of request 2 has returned Ok and waits for the lock
C18_Witness ==
    /\ reqPc[1] = "locked" /\ gen[Req(1)].phase = "ok"
    /\ reqPc[2] = "gen" /\ gen[Req(2)].phase = "ok"
    /\ \A i \in {1, 2} : InOnDemandCycle(i)
    /\ cache = None

\* the refresh task is in a cycle whose generate_config call returned Err
RefreshCycleFailed == refreshPc = "gen" /\ gen[RefreshTask].phase = "err"

\* the refresh task has started a cycle: the timer fired and get_status is
\* awaited
RefreshCycleStarted == refreshPc = "gen" /\ gen[RefreshTask].phase = "fetching"

\* C19: as long as the process lives, a failed refresh cycle is followed by
\* another cycle; and if the process never ends and from some point on no
\* status fetch of the refresh task fails, the cache eventually is and stays
\* non-empty and the refresh task writes it again and again.
C19_RefreshLive ==
    /\ RefreshCycleFailed ~> (RefreshCycleStarted \/ Ended)
    /\ ([]~Ended /\ <>[][~GenFetchErr(RefreshTask)]_vars) =>
          (<>[](cache # None) /\ []<><<RefreshSwap>>_vars)

\* C19 witness: after a failed cycle (the cache is still empty) a later
\* cycle of the refresh task has returned a configuration and holds the
\* write guard
C19_Witness ==
    /\ refreshPc = "locked"
    /\ gen[RefreshTask].phase = "ok"
    /\ cache = None
    /\ mainPc = "serving"

-----------------------------------------------------------------------------
(* Claims about colliding names (SpecEnv) *)

\* the (map key, descriptor) pairs run g has processed in the section of
\* proto: the key names the peer, so that two entries of the peer map are
\* two peers even when their documents are equal
KeyedPairs(g, proto) ==
    { kp \in UNION { { <<k, info>> : info \in InfosOf(Unwrap(g.peers[k])) } :
                       k \in { x \in (DOMAIN g.peers) \ g.pending :
                                 /\ IncludedEntry(g, x)
                                 /\ Unwrap(g.peers[x]).tailscale_ips # <<>> } } :
        kp[2].protocol = proto }

\* the service name the run generates for the pair kp
NameOfPair(g, kp) == generate_service_name_from_info(Unwrap(g.peers[kp[1]]), kp[2])

\* C20: two distinct (peer, descriptor) pairs processed in one run generate
\* the same service name within one protocol section only if they come from
\* two peers whose host names sanitize to the same string: the descriptors
\* of a single peer never collide, and two peers with different sanitized
\* host names never collide.
C20_CollisionsOnlyAcrossPeers ==
    \A r \in Runs : \A proto \in {"Http", "Tcp", "Udp"} :
        \A kp1, kp2 \in KeyedPairs(gen[r], proto) :
            (kp1 # kp2 /\ NameOfPair(gen[r], kp1) = NameOfPair(gen[r], kp2)) =>
                /\ kp1[1] # kp2[1]
                /\ Sanitized(Unwrap(gen[r].peers[kp1[1]]).hostname)
                      = Sanitized(Unwrap(gen[r].peers[kp2[1]]).hostname)

-----------------------------------------------------------------------------
(* Claims about the seven rules of the peer filter (SpecFilter) *)

\* the members of a list
Elems(v) == { v[i] : i \in 1..Len(v) }

\* the peer's tags with the "tag:" prefix stripped; none for a peer
\* without a tag list
CleanPeerTags ==
    IF peer.tags = None THEN {}
    ELSE { StripPrefix(pt, TagPrefix) : pt \in Elems(Unwrap(peer.tags)) }

RuleOnline == peer.online = Some(TRUE)
RuleExitNode == config.exclude_exit_nodes => ~peer.exit_node
RuleIncludeTags ==
    config.include_tags # None =>
        \E wanted \in Elems(Unwrap(config.include_tags)) :
            \E have \in CleanPeerTags : Contains(have, wanted)
RuleHostname ==
    config.exclude_hostnames # None =>
        peer.hostname \notin Elems(Unwrap(config.exclude_hostnames))
RuleInactivity ==
    config.max_inactive_seconds # None =>
        /\ peer.last_write # 0
        /\ now - peer.last_write <= Unwrap(config.max_inactive_seconds)
RuleOs ==
    config.include_os # None => peer.os \in Elems(Unwrap(config.include_os))
RuleExpired == config.exclude_expired => peer.expired # Some(TRUE)

\* C21: should_include_peer returns true exactly when all seven rules hold:
\* the peer is online; it is not an exit node if exclude_exit_nodes; if an
\* include-tag set is configured, some configured tag is a substring of some
\* peer tag with its "tag:" prefix stripped (a peer with no tag list is then
\* excluded); its hostname is not excluded; it passes the max-inactivity
\* rule; its OS is in the include-OS set; it is not expired (absent flag =
\* not expired) if exclude_expired.
C21_SevenRules ==
    IsSome(verdict) =>
        (Unwrap(verdict) <=>
            /\ RuleOnline
            /\ RuleExitNode
            /\ RuleIncludeTags
            /\ RuleHostname
            /\ RuleInactivity
            /\ RuleOs
            /\ RuleExpired)

\* C21 witness: with all six optional rules configured, a peer whose tag
\* "tag:web-3000" only contains the configured tag "web" has been included
C21_Witness ==
    /\ verdict = Some(TRUE)
    /\ config.exclude_exit_nodes
    /\ config.include_tags = Some(<<StrWeb>>)
    /\ peer.tags = Some(<<TagWeb3000>>)
    /\ config.exclude_hostnames # None
    /\ config.max_inactive_seconds # None
    /\ config.include_os # None
    /\ config.exclude_expired
    /\ peer.expired = None

-----------------------------------------------------------------------------
(* Claims about the max-inactivity rule (SpecFilter) *)

\* the verdict of the six other rules: the same policy without a
\* max-inactivity duration
OtherRulesPass ==
    should_include_peer([config EXCEPT !.max_inactive_seconds = None], peer, now)

\* the values of last_write explored
LastWrites == { p.last_write : p \in FilterPeers }

\* the inactivity of the peer in whole seconds
Inactivity == now - peer.last_write

\* the part of the rule that holds for every duration: the epoch instant
\* excludes; any other peer is excluded by the rule exactly when its
\* inactivity is strictly greater than the duration; without a duration
\* last_write has no effect
InactivityRule ==
    IF config.max_inactive_seconds = None
    THEN \A lw \in LastWrites :
            Unwrap(verdict) =
               should_include_peer(config, [peer EXCEPT !.last_write = lw], now)
    ELSE IF peer.last_write = 0
    THEN Unwrap(verdict) = FALSE
    ELSE Unwrap(verdict) =
            (OtherRulesPass /\ ~(Inactivity > Unwrap(config.max_inactive_seconds)))

\* the peer is inactive for exactly the duration, or wrote in the future
AtDurationOrFuture ==
    /\ config.max_inactive_seconds # None
    /\ peer.last_write # 0
    /\ \/ Inactivity = Unwrap(config.max_inactive_seconds)
       \/ peer.last_write > now

\* C22 as stated: the max-inactivity rule, with "a peer inactive for exactly
\* the configured number of seconds, or with a last-write in the future, is
\* included" for every configured duration.
C22_InactivityAsStated ==
    IsSome(verdict) =>
        /\ InactivityRule
        /\ (AtDurationOrFuture /\ OtherRulesPass) => Unwrap(verdict)

\* C22 (amended): when max_inactive_seconds is configured, a peer whose
\* last_write is the epoch instant is excluded whatever the duration, and any
\* other peer is excluded by the rule exactly when now - last_write in whole
\* seconds is strictly greater than the duration; a peer inactive for exactly
\* the duration is included, and a peer with a last_write in the future is
\* included when the duration is not negative; without a duration last_write
\* has no effect on inclusion.
C22_InactivityRule ==
    IsSome(verdict) =>
        /\ InactivityRule
        /\ ( /\ AtDurationOrFuture
             /\ OtherRulesPass
             /\ (peer.last_write > now => Unwrap(config.max_inactive_seconds) >= 0) )
           => Unwrap(verdict)

\* C22 witness: a peer inactive for exactly the configured two seconds has
\* been included
C22_Witness ==
    /\ verdict = Some(TRUE)
    /\ config.max_inactive_seconds = Some(2)
    /\ peer.last_write # 0
    /\ Inactivity = 2

-----------------------------------------------------------------------------
(* Claims about the protocol and the scheme of a parsed tag (SpecTag) *)

\* equality of two strings ignoring the case of their letters
EqIgnoreCase(a, b) ==
    /\ Len(a) = Len(b)
    /\ \A i \in 1..Len(a) : ToLowerChar(a[i]) = ToLowerChar(b[i])

\* the protocol stated for a protocol segment
StatedProtocol(seg) ==
    IF EqIgnoreCase(seg, StrTcp) THEN "Tcp"
    ELSE IF EqIgnoreCase(seg, StrUdp) THEN "Udp"
    ELSE "Http"

\* the default scheme of a protocol
StatedProtocolScheme(protocol) ==
    CASE protocol = "Http" -> StrHttp
      [] protocol = "Tcp" -> StrTcp
      [] protocol = "Udp" -> StrUdp

-----------------------------------------------------------------------------
(* Claims about failures local to one (peer, service) pair (SpecEnv) *)

\* the tag does not parse: under the positional rules its port segment is
\* not a port number
TagUnparsable(cfg, t) ==
    /\ cfg.extract_protocol_from_tag
    /\ LET segs == Split(StripPrefix(t, TagPrefix), "-")
           n == Len(segs)
       IN  /\ n >= 2
           /\ ParseU16(IF n <= 3 THEN segs[2] ELSE segs[n - 1]) = None

\* the tag has no entry in the explicit table
TagUnmapped(cfg, t) ==
    \/ cfg.tag_service_mapping = None
    \/ StripPrefix(t, TagPrefix) \notin DOMAIN Unwrap(cfg.tag_service_mapping)

\* the peer without the tags that neither parse nor have an entry
WithoutFailingTags(cfg, p) ==
    LET Yields(t) == ~(TagUnparsable(cfg, t) /\ TagUnmapped(cfg, t))
    IN  IF p.tags = None THEN p
        ELSE [p EXCEPT !.tags = Some(SelectSeq(Unwrap(p.tags), Yields))]

\* the peer map without the peers that have no mesh IP and without the
\* failing tags of the others
WithoutFailures(cfg, peers) ==
    [k \in { x \in DOMAIN peers : Unwrap(peers[x]).tailscale_ips # <<>> } |->
        Some(WithoutFailingTags(cfg, Unwrap(peers[k])))]

\* the include-tag set, when configured, holds the name
NameWanted(cfg, name) ==
    cfg.include_tags # None => name \in Elems(Unwrap(cfg.include_tags))

\* the snapshot holds a failure: a peer without a mesh IP or a failing tag
HasFailure(cfg, peers) == WithoutFailures(cfg, peers) # peers

\* C24: a tag that does not parse, a tag without an entry in the explicit
\* table and a peer without a mesh IP remove only their own (peer, service)
\* pairs: generate_config never fails in the loop, and the configuration it
\* returns is one it returns for the snapshot without the failing tags and
\* without the peers that have no mesh IP; a tag that fails in one of the
\* two ways only still yields its descriptor of the other way.
C24_LocalFailures ==
    \A r \in Runs :
        /\ gen[r].phase # "err"
        /\ gen[r].phase = "ok" =>
              /\ IsSome(status.peers)
              /\ Unwrap(gen[r].result) \in
                    generate_config(config,
                        [peers |-> Some(WithoutFailures(config, Unwrap(status.peers)))],
                        now)
              /\ \A k \in DOMAIN Unwrap(status.peers) :
                    LET p == Unwrap(Unwrap(status.peers)[k])
                        tags == IF p.tags = None THEN <<>> ELSE Unwrap(p.tags)
                    IN  \A i \in 1..Len(tags) :
                           /\ ~TagUnparsable(config, tags[i]) =>
                                 LET d == Unwrap(parse_service_info_from_tag(config, tags[i]))
                                 IN  NameWanted(config, d.name) => d \in InfosOf(p)
                           /\ ~TagUnmapped(config, tags[i]) =>
                                 LET d == Unwrap(config.tag_service_mapping)
                                             [StripPrefix(tags[i], TagPrefix)]
                                 IN  NameWanted(config, d.name) => d \in InfosOf(p)

\* C24 witness: a run over a peer with a tag that does not parse and a peer
\* without a mesh IP has returned the TCP and UDP services of the first peer
C24_Witness ==
    /\ gen[Run(1)].phase = "ok"
    /\ \E k1, k2 \in DOMAIN Unwrap(status.peers) :
          /\ Unwrap(status.peers)[k1] = Some(PeerDb)
          /\ Unwrap(status.peers)[k2] = Some(PeerNoIp)
    /\ TagUnparsable(config, TagDbNotAPort)
    /\ HasFailure(config, Unwrap(status.peers))
    /\ IsSome(Unwrap(gen[Run(1)].result).tcp)
    /\ IsSome(Unwrap(gen[Run(1)].result).udp)
    /\ Unwrap(gen[Run(1)].result).http = None

-----------------------------------------------------------------------------
(* Claims about the peer without tags (SpecFilter) *)

\* the peer has no tags: no tag list, or an empty one
PeerUntagged == peer.tags = None \/ peer.tags = Some(<<>>)

\* the descriptor made of the policy defaults
DefaultDescriptor ==
    [name |-> DefaultName, port |-> Some(config.default_port),
     protocol |-> config.default_protocol, scheme |-> config.default_scheme]

\* the number of services the run on the one-peer document has generated
SoloServiceCount ==
    Cardinality(DOMAIN gen[Solo].acc.http_services)
      + Cardinality(DOMAIN gen[Solo].acc.tcp_services)
      + Cardinality(DOMAIN gen[Solo].acc.udp_services)

\* C25: a peer that has no tags (no tag list, or an empty tag list) yields,
\* when no include-tag set is configured, exactly one descriptor, "default"
\* with the policy's default port, protocol and scheme, and so exactly one
\* service when it is included and has a mesh IP; when an include-tag set is
\* configured it yields no descriptor.
C25_UntaggedPeerDefault ==
    (gen[Solo].phase = "ok" /\ PeerUntagged) =>
        /\ (config.include_tags = None /\ verdict = Some(TRUE)) =>
              /\ extract_service_infos_from_peer(config, peer) = <<DefaultDescriptor>>
              /\ peer.tailscale_ips # <<>> => SoloServiceCount = 1
        /\ config.include_tags # None =>
              /\ extract_service_infos_from_peer(config, peer) = <<>>
              /\ SoloServiceCount = 0

-----------------------------------------------------------------------------
(* Claims about the descriptors of a tagged peer (SpecEnv) *)

\* the members of a list of options that are present and whose name the
\* include-tag set admits, unwrapped, in order
KeptOf(cfg, results) ==
    LET Kept(r) == IsSome(r) /\ NameWanted(cfg, Unwrap(r).name)
        kept == SelectSeq(results, Kept)
    IN  [i \in 1..Len(kept) |-> Unwrap(kept[i])]

\* the TagParser result of each tag
StatedParsed(cfg, tags) ==
    KeptOf(cfg, [i \in 1..Len(tags) |-> parse_service_info_from_tag(cfg, tags[i])])

\* the table entry of each tag that is a key of the table
StatedMapped(cfg, tags) ==
    KeptOf(cfg, [i \in 1..Len(tags) |->
                    IF TagUnmapped(cfg, tags[i]) THEN None
                    ELSE Some(Unwrap(cfg.tag_service_mapping)
                                 [StripPrefix(tags[i], TagPrefix)])])

\* the peers with a tag list that run g has visited and included
TaggedPeersOf(g) ==
    { Unwrap(g.peers[k]) :
        k \in { x \in (DOMAIN g.peers) \ g.pending :
                  /\ IncludedEntry(g, x)
                  /\ Unwrap(g.peers[x]).tags # None } }

\* C26: for a peer with tags, extract_service_infos_from_peer returns the
\* TagParser result of each tag that parses, followed by the table entry of
\* each tag that, "tag:" stripped, is a key of the explicit table; with an
\* include-tag set both parts keep only the descriptors whose name is a
\* member of the set, and otherwise all of them; a tag that parses and is a
\* key contributes two descriptors.
C26_TaggedPeerDescriptors ==
    \A r \in Runs : \A p \in TaggedPeersOf(gen[r]) :
        LET tags == Unwrap(p.tags)
        IN  /\ extract_service_infos_from_peer(config, p)
                 = StatedParsed(config, tags) \o StatedMapped(config, tags)
            /\ \A i \in 1..Len(tags) :
                 ( /\ config.include_tags = None
                   /\ ~TagUnparsable(config, tags[i])
                   /\ ~TagUnmapped(config, tags[i]) ) =>
                      Len(extract_service_infos_from_peer(config,
                             [p EXCEPT !.tags = Some(<<tags[i]>>)])) = 2

\* C26 witness: with extraction from tags disabled and the table keyed by
\* web-3000, the visited peer tagged tag:web-3000 has yielded the parsed
\* descriptor followed by the table entry
C26_Witness ==
    /\ env = EnvCollide
    /\ gen[Run(1)].phase = "ok"
    /\ PeerBox1Web \in TaggedPeersOf(gen[Run(1)])
    /\ Len(extract_service_infos_from_peer(config, PeerBox1Web)) = 2
    /\ extract_service_infos_from_peer(config, PeerBox1Web)[1].port = Some(80)
    /\ extract_service_infos_from_peer(config, PeerBox1Web)[2].port = Some(81)
    /\ Cardinality(DOMAIN gen[Run(1)].acc.http_services) = 1

-----------------------------------------------------------------------------
(* Claims about the order of the writes to the cache (SpecOrder) *)

\* the place of holder x in the history
PlaceOf(x) == CHOOSE i \in 1..Len(fetchOrder) : fetchOrder[i] = x

\* the snapshot task t holds was fetched before the one the cache was built
\* from
HoldsOlderThanCache(t) ==
    /\ t \in Elems(fetchOrder)
    /\ CacheSlot \in Elems(fetchOrder)
    /\ PlaceOf(t) < PlaceOf(CacheSlot)

\* C27: the cached configuration never goes back in time: no write replaces
\* the cached configuration by one built from a snapshot that was fetched
\* before the snapshot the cached one was built from, whichever of the
\* refresh task, the initial load and the /config handlers writes.
C27_CacheNeverGoesBack ==
    [][ /\ InitialLoadSwapOrdered => ~HoldsOlderThanCache(MainTask)
        /\ RefreshSwapOrdered => ~HoldsOlderThanCache(RefreshTask)
        /\ \A i \in Requests : ReqSwapOrdered(i) => ~HoldsOlderThanCache(Req(i)) ]_vars

-----------------------------------------------------------------------------
(* Claims about the cache once it has been written (Spec) *)

\* no step empties a written cache
CacheStaysWrittenStep == cache # None => cache' # None

\* a request that holds the read guard on a written cache is answered 200
\* with the cached value and starts no generate_config
HitFromCacheStep ==
    \A i \in Requests :
        (reqPc[i] = "reading" /\ cache # None /\ reqPc'[i] # reqPc[i]) =>
            /\ response'[i] = Some([code |-> 200, body |-> cache])
            /\ gen'[Req(i)] = gen[Req(i)]
            /\ gen[Req(i)].phase = "idle"

\* a 503 is answered only while the cache is empty
UnavailableOnlyWhenEmptyStep ==
    \A i \in Requests :
        (response'[i] # response[i] /\ response'[i] = Some([code |-> 503, body |-> None])) =>
            cache = None

\* C28: once a write to the cache has succeeded the cache is non-empty in
\* every later state, so every /config request that starts after that point
\* is answered 200 from the cache without a status fetch, and a 503 from
\* /config is answered only while the cache has never been written.
C28_WrittenCacheServes ==
    [][CacheStaysWrittenStep /\ HitFromCacheStep /\ UnavailableOnlyWhenEmptyStep]_vars

-----------------------------------------------------------------------------
(* Claims about the references between routers and services (SpecEnv) *)

RouterSuffix == <<"-","r","o","u","t","e","r">>

\* the routers are the services with "-router" appended, one for one, and
\* each router names the service it was generated with
RoutersMatchServices(routers, services) ==
    /\ DOMAIN routers = { n \o RouterSuffix : n \in DOMAIN services }
    /\ Cardinality(DOMAIN routers) = Cardinality(DOMAIN services)
    /\ \A n \in DOMAIN services : routers[n \o RouterSuffix].service = n
    /\ \A rn \in DOMAIN routers : routers[rn].service \in DOMAIN services

\* the protocols of the descriptors of entry k of run g's peer map
ProtocolsOfEntry(g, k) ==
    IF g.peers[k] = None THEN {}
    ELSE { info.protocol : info \in InfosOf(Unwrap(g.peers[k])) }

\* run r visits an entry of the peer map: the maps of a protocol that no
\* descriptor of the entry has are left as they are
OtherSectionsUntouched(r) ==
    \A k \in gen[r].pending :
        (gen'[r].pending = gen[r].pending \ {k}) =>
            \A proto \in {"Http", "Tcp", "Udp"} \ ProtocolsOfEntry(gen[r], k) :
                /\ ServicesOf(gen'[r].acc, proto) = ServicesOf(gen[r].acc, proto)
                /\ RoutersOf(gen'[r].acc, proto) = RoutersOf(gen[r].acc, proto)

\* C29: in every synthesized configuration, in each present section, the
\* router names are exactly the service names with "-router" appended (as
\* many routers as services) and every router's service field names a
\* service of the same section; the descriptors of a peer add entries to
\* the sections of their own protocols only.
C29_ReferentialIntegrity ==
    /\ [](\A r \in Runs :
            /\ \A proto \in {"Http", "Tcp", "Udp"} :
                  RoutersMatchServices(RoutersOf(gen[r].acc, proto),
                                       ServicesOf(gen[r].acc, proto))
            /\ gen[r].phase = "ok" =>
                  \A proto \in {"Http", "Tcp", "Udp"} :
                     LET sec == SectionOf(Unwrap(gen[r].result), proto)
                     IN  IsSome(sec) =>
                            RoutersMatchServices(Unwrap(sec).routers, Unwrap(sec).services))
    /\ [][\A r \in Runs : OtherSectionsUntouched(r)]_vars

\* C29 witness: a run has returned a TCP and a UDP section, each with one
\* service and its router, and no HTTP section
C29_Witness ==
    /\ gen[Run(1)].phase = "ok"
    /\ Unwrap(gen[Run(1)].result).http = None
    /\ IsSome(Unwrap(gen[Run(1)].result).tcp)
    /\ IsSome(Unwrap(gen[Run(1)].result).udp)
    /\ Cardinality(DOMAIN Unwrap(Unwrap(gen[Run(1)].result).udp).routers) = 1
    /\ Cardinality(DOMAIN Unwrap(Unwrap(gen[Run(1)].result).tcp).services) = 1

-----------------------------------------------------------------------------
(* Claims about the agreement of the filter and the extractor (SpecEnv) *)

\* the entries of run g's peer map that have been visited, pass
\* should_include_peer and have a mesh IP
ServedEntries(g) ==
    { k \in (DOMAIN g.peers) \ g.pending :
        /\ IncludedEntry(g, k)
        /\ Unwrap(g.peers[k]).tailscale_ips # <<>> }

\* C30: whenever an include-tag set is configured, every peer that passes
\* should_include_peer and has a mesh IP yields at least one descriptor and
\* so contributes at least one service: a peer tag that satisfies the
\* filter's substring match also yields a descriptor whose name is a member
\* of the include-tag set.
C30_FilterAndExtractorAgree ==
    config.include_tags # None =>
        \A r \in Runs : \A k \in ServedEntries(gen[r]) :
            LET p == Unwrap(gen[r].peers[k])
            IN  /\ InfosOf(p) # {}
                /\ \E info \in InfosOf(p) :
                      /\ info.name \in Elems(Unwrap(config.include_tags))
                      /\ generate_service_name_from_info(p, info)
                            \in DOMAIN ServicesOf(gen[r].acc, info.protocol)

====
